---------------------------- MODULE Spec2Model ----------------------------
(***************************************************************************)
(* Voice-driven restaurant reservation: the conversation state machine of  *)
(* frontend/src/voice.js (startConversation), the speech helpers speak and *)
(* listenOnce, and the booking routes of backend/routes/bookings.js with   *)
(* the in-memory store (dbIsConnected() false).                            *)
(*                                                                         *)
(* Text is a sequence of one-character strings, so that substring tests,   *)
(* regular expressions and formatting are computed as the code computes    *)
(* them.  An async function is a process whose pc names the await it is    *)
(* suspended on; one action runs the code from one await to the next.      *)
(***************************************************************************)
EXTENDS Naturals, Integers, Sequences, FiniteSets, TLC

(***************************************************************************)
(* Bounds                                                                  *)
(***************************************************************************)
\* number of bookings other clients submit while the session runs
MaxOtherPosts == 1

\* calls of speak() followed in the speech specification
MaxSpeakCalls == 3

\* create and delete requests sent straight to the bookings route
MaxCalls == 4

\* the number of elements after which an array cannot grow: the stand-in for
\* the limits of the engine (2^32 - 1 elements, or the heap), above the
\* length of every grid a positive duration of the inputs gives
ArrayLimit == 24

(***************************************************************************)
(* Text helpers                                                            *)
(***************************************************************************)
Digits == {"0", "1", "2", "3", "4", "5", "6", "7", "8", "9"}

LowerLetters ==
  {"a", "b", "c", "d", "e", "f", "g", "h", "i", "j", "k", "l", "m",
   "n", "o", "p", "q", "r", "s", "t", "u", "v", "w", "x", "y", "z"}

UpperLetters ==
  {"A", "B", "C", "D", "E", "F", "G", "H", "I", "J", "K", "L", "M",
   "N", "O", "P", "Q", "R", "S", "T", "U", "V", "W", "X", "Y", "Z"}

\* String.prototype.toLowerCase on one character
LowerChar(c) ==
  CASE c = "A" -> "a"
    [] c = "B" -> "b"
    [] c = "C" -> "c"
    [] c = "D" -> "d"
    [] c = "E" -> "e"
    [] c = "F" -> "f"
    [] c = "G" -> "g"
    [] c = "H" -> "h"
    [] c = "I" -> "i"
    [] c = "J" -> "j"
    [] c = "K" -> "k"
    [] c = "L" -> "l"
    [] c = "M" -> "m"
    [] c = "N" -> "n"
    [] c = "O" -> "o"
    [] c = "P" -> "p"
    [] c = "Q" -> "q"
    [] c = "R" -> "r"
    [] c = "S" -> "s"
    [] c = "T" -> "t"
    [] c = "U" -> "u"
    [] c = "V" -> "v"
    [] c = "W" -> "w"
    [] c = "X" -> "x"
    [] c = "Y" -> "y"
    [] c = "Z" -> "z"
    [] OTHER -> c

\* String.prototype.toLowerCase
Lower(t) == [k \in 1..Len(t) |-> LowerChar(t[k])]

\* the regular-expression class \s
IsSpace(c) == c = " "

\* the regular-expression class \d
IsDigit(c) == c \in Digits

\* the regular-expression class \w
IsWordChar(c) == c \in LowerLetters \cup UpperLetters \cup Digits \cup {"_"}

DigitVal(c) ==
  CASE c = "0" -> 0 [] c = "1" -> 1 [] c = "2" -> 2 [] c = "3" -> 3
    [] c = "4" -> 4 [] c = "5" -> 5 [] c = "6" -> 6 [] c = "7" -> 7
    [] c = "8" -> 8 [] c = "9" -> 9

DigitChar(n) ==
  CASE n = 0 -> "0" [] n = 1 -> "1" [] n = 2 -> "2" [] n = 3 -> "3"
    [] n = 4 -> "4" [] n = 5 -> "5" [] n = 6 -> "6" [] n = 7 -> "7"
    [] n = 8 -> "8" [] n = 9 -> "9"

RECURSIVE TrimLeft(_)
TrimLeft(t) ==
  IF t # <<>> /\ IsSpace(Head(t)) THEN TrimLeft(Tail(t)) ELSE t

RECURSIVE TrimRight(_)
TrimRight(t) ==
  IF t # <<>> /\ IsSpace(t[Len(t)])
    THEN TrimRight(SubSeq(t, 1, Len(t) - 1))
    ELSE t

\* String.prototype.trim
Trim(t) == TrimRight(TrimLeft(t))

\* the text starting at position p (1-based) begins with pat
MatchesAt(t, p, pat) ==
  /\ p >= 1
  /\ p + Len(pat) - 1 <= Len(t)
  /\ SubSeq(t, p, p + Len(pat) - 1) = pat

\* String.prototype.includes
Includes(t, pat) == \E p \in 1..(Len(t) + 1) : MatchesAt(t, p, pat)

\* String.prototype.replace(pat, rep) with a string pattern: first occurrence
ReplaceFirst(t, pat, rep) ==
  IF ~Includes(t, pat) THEN t
  ELSE LET p == CHOOSE q \in 1..(Len(t) + 1) :
                  /\ MatchesAt(t, q, pat)
                  /\ \A r \in 1..(q - 1) : ~MatchesAt(t, r, pat)
       IN SubSeq(t, 1, p - 1) \o rep \o SubSeq(t, p + Len(pat), Len(t))

\* the regular-expression assertion \b between positions p-1 and p
WordBoundaryAt(t, p) ==
  LET before == p - 1 >= 1 /\ p - 1 <= Len(t) /\ IsWordChar(t[p - 1])
      after  == p >= 1 /\ p <= Len(t) /\ IsWordChar(t[p])
  IN before # after

\* String(n).padStart(2, '0') for 0 <= n <= 99
Pad2(n) == <<DigitChar(n \div 10), DigitChar(n % 10)>>

\* `${hh}:${mm}` with both parts padded to two digits
TimeStr(hh, mm) == Pad2(hh) \o <<":">> \o Pad2(mm)

\* a text of digits as a number
RECURSIVE DigitsValue(_)
DigitsValue(ds) ==
  IF ds = <<>> THEN 0
  ELSE 10 * DigitsValue(SubSeq(ds, 1, Len(ds) - 1)) + DigitVal(ds[Len(ds)])

\* the digits a text begins with
RECURSIVE LeadingDigits(_)
LeadingDigits(t) ==
  IF t # <<>> /\ IsDigit(Head(t))
    THEN <<Head(t)>> \o LeadingDigits(Tail(t))
    ELSE <<>>

\* the result of parseInt when the text does not begin with a number
NaN == -1

\* parseInt(p, 10) of a text without sign
ParseIntText(p) ==
  IF LeadingDigits(TrimLeft(p)) = <<>> THEN NaN
  ELSE DigitsValue(LeadingDigits(TrimLeft(p)))

\* the absent value (null / undefined) where a text is expected
Null == <<"null">>

\* the elements of a sequence
Range(s) == {s[k] : k \in 1..Len(s)}

(***************************************************************************)
(* Keyword tables                                                          *)
(***************************************************************************)
\* the Latin-script entries of yesWords (voice.js:769); the Devanagari
\* entries cannot occur in the Latin-script transcripts drawn below
yesWords ==
  { <<"y", "e", "s">>,
    <<"y", "e", "a", "h">>,
    <<"y", "e", "p">>,
    <<"s", "u", "r", "e">>,
    <<"o", "k">>,
    <<"o", "k", "a", "y">>,
    <<"c", "o", "n", "f", "i", "r", "m">>,
    <<"a", "f", "f", "i", "r", "m", "a", "t", "i", "v", "e">>,
    <<"p", "l", "e", "a", "s", "e", " ", "d", "o">>,
    <<"d", "o", " ", "i", "t">>,
    <<"i", " ", "d", "o">>,
    <<"i", "'", "d", " ", "l", "i", "k", "e">>,
    <<"h", "a", "a", "n">>,
    <<"h", "a", "a", "n", " ", "j", "i">> }

\* the Latin-script entries of noWords (voice.js:910)
noWords ==
  { <<"n", "o">>,
    <<"n", "a", "h">>,
    <<"n", "o", "p", "e">>,
    <<"d", "o", "n", "t">>,
    <<"d", "o", "n", "'", "t">>,
    <<"c", "a", "n", "c", "e", "l">>,
    <<"n", "o", "t">>,
    <<"n">> }

\* the Latin-script alternatives of the keyword pattern (voice.js:941)
nlpKeywords ==
  { <<"b", "o", "o", "k">>,
    <<"r", "e", "s", "e", "r", "v", "e">>,
    <<"t", "o", "m", "o", "r", "r", "o", "w">>,
    <<"t", "o", "n", "i", "g", "h", "t">>,
    <<"f", "o", "r">>,
    <<"a", "t">>,
    <<"p", "e", "o", "p", "l", "e">>,
    <<"g", "u", "e", "s", "t", "s">>,
    <<"t", "a", "b", "l", "e">> }

(***************************************************************************)
(* Affirmative / negative detection                                        *)
(***************************************************************************)
\* /^\s*y[ae]s?\b/ on an already trimmed, lower-cased text
YesPattern(t) ==
  /\ Len(t) >= 2
  /\ t[1] = "y"
  /\ t[2] \in {"a", "e"}
  /\ \/ Len(t) >= 3 /\ t[3] = "s" /\ WordBoundaryAt(t, 4)
     \/ WordBoundaryAt(t, 3)

\* lines 770-771 on the lowered and trimmed text
AffirmativeIn(t) ==
  \/ \E w \in yesWords : Includes(t, w)
  \/ YesPattern(t)

isAffirmative(text) ==
  IF text = <<>> THEN FALSE ELSE AffirmativeIn(Trim(Lower(text)))

isNegative(text) ==
  IF text = <<>> THEN FALSE
  ELSE LET t == Lower(text)
       IN \E w \in noWords : Includes(t, w)

(***************************************************************************)
(* Time parsing                                                            *)
(***************************************************************************)
\* /(\d{1,2})[:. ](\d{2})/ matched at position p; the result is
\* <<hour digits, minute digits>> or <<>> when there is no match at p
HhmmAt(t, p) ==
  LET sepAt(q) == q <= Len(t) /\ t[q] \in {":", ".", " "}
      digAt(q) == q <= Len(t) /\ IsDigit(t[q])
  IN IF digAt(p) /\ digAt(p + 1) /\ sepAt(p + 2) /\ digAt(p + 3) /\ digAt(p + 4)
       THEN <<SubSeq(t, p, p + 1), SubSeq(t, p + 3, p + 4)>>
     ELSE IF digAt(p) /\ sepAt(p + 1) /\ digAt(p + 2) /\ digAt(p + 3)
       THEN <<SubSeq(t, p, p), SubSeq(t, p + 2, p + 3)>>
     ELSE <<>>

\* parseInt of a text of one or two digits
ParseInt2(ds) ==
  IF Len(ds) = 1 THEN DigitVal(ds[1]) ELSE 10 * DigitVal(ds[1]) + DigitVal(ds[2])

\* /(\d{1,2})\s*(am|pm)?/ matched at position p, where t[p] is a digit:
\* <<hour digits, suffix>> with suffix "am", "pm" or "" (group unmatched)
SimpleAt(t, p) ==
  LET two  == p + 1 <= Len(t) /\ IsDigit(t[p + 1])
      ds   == IF two THEN SubSeq(t, p, p + 1) ELSE SubSeq(t, p, p)
      rest == TrimLeft(SubSeq(t, p + Len(ds), Len(t)))
      sfx  == IF MatchesAt(rest, 1, <<"a", "m">>) THEN "am"
              ELSE IF MatchesAt(rest, 1, <<"p", "m">>) THEN "pm"
              ELSE ""
  IN <<ds, sfx>>

\* the least element of a non-empty set of positions: where the leftmost
\* match of a regular expression begins
FirstPos(S) == CHOOSE x \in S : \A y \in S : x <= y

\* twelve hours added to every pm hour
AdjustPmAlways(hh, isPm) == IF isPm THEN hh + 12 ELSE hh

\* lines 709 and 717: hh += 12 for an afternoon hour
AdjustPm(hh, isPm) == IF isPm /\ hh < 12 THEN hh + 12 ELSE hh

\* lines 710 and 718: 12 am is hour 0
AdjustAm(hh, isAm) == IF isAm /\ hh = 12 THEN 0 ELSE hh

\* lines 706-711 with the match m of the hhmm pattern
HhmmTime(t, m) ==
  TimeStr(AdjustAm(AdjustPm(ParseInt2(m[1]), Includes(t, <<"p", "m">>)),
                   Includes(t, <<"a", "m">>)),
          ParseInt2(m[2]))

\* lines 714-719 with the match m of the simple pattern
SimpleTime(m) ==
  TimeStr(AdjustAm(AdjustPm(ParseInt2(m[1]), m[2] = "pm"), m[2] = "am"), 0)

\* lines 705-721 with the positions where the two patterns match
TimeFromMatches(t, hhmmPos, digPos) ==
  IF hhmmPos # {} THEN HhmmTime(t, HhmmAt(t, FirstPos(hhmmPos)))
  ELSE IF digPos # {} THEN SimpleTime(SimpleAt(t, FirstPos(digPos)))
  ELSE Null

\* lines 705-721 on the normalised text of line 704
TimeOfNormalised(t) ==
  TimeFromMatches(t, {p \in 1..Len(t) : HhmmAt(t, p) # <<>>},
                     {p \in 1..Len(t) : IsDigit(t[p])})

parseTimeText(text) ==
  TimeOfNormalised(
    Trim(ReplaceFirst(Lower(text), <<"o", "'", "c", "l", "o", "c", "k">>, <<>>)))

(***************************************************************************)
(* Number words (parseNumberText)                                          *)
(***************************************************************************)
\* lines 541-545: engSmall
engSmall ==
  {
     [word |-> <<"z", "e", "r", "o">>, value |-> 0],
     [word |-> <<"o", "n", "e">>, value |-> 1],
     [word |-> <<"t", "w", "o">>, value |-> 2],
     [word |-> <<"t", "h", "r", "e", "e">>, value |-> 3],
     [word |-> <<"f", "o", "u", "r">>, value |-> 4],
     [word |-> <<"f", "i", "v", "e">>, value |-> 5],
     [word |-> <<"s", "i", "x">>, value |-> 6],
     [word |-> <<"s", "e", "v", "e", "n">>, value |-> 7],
     [word |-> <<"e", "i", "g", "h", "t">>, value |-> 8],
     [word |-> <<"n", "i", "n", "e">>, value |-> 9],
     [word |-> <<"t", "e", "n">>, value |-> 10],
     [word |-> <<"e", "l", "e", "v", "e", "n">>, value |-> 11],
     [word |-> <<"t", "w", "e", "l", "v", "e">>, value |-> 12],
     [word |-> <<"t", "h", "i", "r", "t", "e", "e", "n">>, value |-> 13],
     [word |-> <<"f", "o", "u", "r", "t", "e", "e", "n">>, value |-> 14],
     [word |-> <<"f", "i", "f", "t", "e", "e", "n">>, value |-> 15],
     [word |-> <<"s", "i", "x", "t", "e", "e", "n">>, value |-> 16],
     [word |-> <<"s", "e", "v", "e", "n", "t", "e", "e", "n">>, value |-> 17],
     [word |-> <<"e", "i", "g", "h", "t", "e", "e", "n">>, value |-> 18],
     [word |-> <<"n", "i", "n", "e", "t", "e", "e", "n">>, value |-> 19],
     [word |-> <<"t", "w", "e", "n", "t", "y">>, value |-> 20],
     [word |-> <<"t", "h", "i", "r", "t", "y">>, value |-> 30],
     [word |-> <<"f", "o", "r", "t", "y">>, value |-> 40],
     [word |-> <<"f", "i", "f", "t", "y">>, value |-> 50],
     [word |-> <<"s", "i", "x", "t", "y">>, value |-> 60],
     [word |-> <<"s", "e", "v", "e", "n", "t", "y">>, value |-> 70],
     [word |-> <<"e", "i", "g", "h", "t", "y">>, value |-> 80],
     [word |-> <<"n", "i", "n", "e", "t", "y">>, value |-> 90],
     [word |-> <<"h", "u", "n", "d", "r", "e", "d">>, value |-> 100]
  }

\* engSmall[w] !== undefined
IsNumberWord(w) == \E e \in engSmall : e.word = w

\* engSmall[w]
NumberWordValue(w) == (CHOOSE e \in engSmall : e.word = w).value

\* line 553: the characters that are kept; every other one becomes a space
\* (texts are ASCII here: the Devanagari range does not occur)
NumberChar(c) ==
  IF c \in Digits \cup LowerLetters \cup {"-"} THEN c ELSE " "

\* String.prototype.split(/\s+/).filter(Boolean)
RECURSIVE Words(_)
Words(t) ==
  IF TrimLeft(t) = <<>> THEN <<>>
  ELSE LET u == TrimLeft(t)
           ends == {p \in 1..Len(u) : IsSpace(u[p])}
           n == IF ends = {} THEN Len(u) ELSE FirstPos(ends) - 1
       IN <<SubSeq(u, 1, n)>> \o Words(SubSeq(u, n + 1, Len(u)))

\* lines 553-554: parts
NumberParts(normalized) ==
  Words([k \in 1..Len(normalized) |-> NumberChar(LowerChar(normalized[k]))])

\* String.prototype.match(/\d+/): the first run of digits, <<>> without one
FirstDigitRun(t) ==
  LET at == {p \in 1..Len(t) : IsDigit(t[p])}
  IN IF at = {} THEN <<>>
     ELSE LeadingDigits(SubSeq(t, FirstPos(at), Len(t)))

\* lines 556-569: the loop over parts from index k on, with total so far
RECURSIVE WordsTotal(_, _, _)
WordsTotal(parts, k, total) ==
  IF k > Len(parts) THEN total
  ELSE IF ~IsNumberWord(parts[k]) THEN WordsTotal(parts, k + 1, total)
  ELSE IF /\ NumberWordValue(parts[k]) >= 20
          /\ k + 1 <= Len(parts)
          /\ IsNumberWord(parts[k + 1])
          /\ NumberWordValue(parts[k + 1]) < 10
    THEN total + NumberWordValue(parts[k]) + NumberWordValue(parts[k + 1])
  ELSE WordsTotal(parts, k + 1, total + NumberWordValue(parts[k]))

\* null where a number is expected
NoNumber == NaN

\* lines 556-570: the number the words name, NoNumber when none is a word
NumberFromWords(parts) ==
  IF \E k \in 1..Len(parts) : IsNumberWord(parts[k])
    THEN IF WordsTotal(parts, 1, 0) = 0 THEN 1 ELSE WordsTotal(parts, 1, 0)
    ELSE NoNumber

\* lines 530-594 for a text in ASCII
parseNumberText(text) ==
  IF text = <<>> \/ text = Null THEN NoNumber
  ELSE IF FirstDigitRun(Trim(text)) # <<>>
    THEN DigitsValue(FirstDigitRun(Trim(text)))
  ELSE NumberFromWords(NumberParts(Trim(text)))

\* a guest count that lets zero through
noGuestsUnchecked(guests) ==
  IF parseNumberText(guests) # NoNumber THEN parseNumberText(guests) ELSE 1

\* lines 988-993: noGuests
noGuests(guests) ==
  LET first == parseNumberText(guests)
      digits == IF guests = Null THEN <<>> ELSE FirstDigitRun(guests)
      second == IF first # NoNumber /\ first # 0 THEN first
                ELSE IF digits # <<>> THEN DigitsValue(digits)
                ELSE 1
  IN IF second <= 0 THEN 1 ELSE second

(***************************************************************************)
(* Dates                                                                   *)
(***************************************************************************)
\* a Date object in local time: <<year, month, day>> with the 0-based month of
\* the Date API, at midnight; the value of new Date() has a fourth component,
\* the milliseconds since midnight
IsLeap(y) == (y % 4 = 0 /\ y % 100 # 0) \/ y % 400 = 0

\* m is the 0-based month of the Date API
DaysInMonth(y, m) ==
  IF m = 1 THEN (IF IsLeap(y) THEN 29 ELSE 28)
  ELSE IF m \in {3, 5, 8, 10} THEN 30
  ELSE 31

\* new Date(year, month, day): months past December and days past the end
\* of the month carry over into the following month / year, day 0 is the
\* last day of the month before
RECURSIVE MakeDate(_, _, _)
MakeDate(y, m, d) ==
  IF m > 11 THEN MakeDate(y + 1, m - 12, d)
  ELSE IF d < 1
    THEN IF m = 0 THEN MakeDate(y - 1, 11, d + 31)
         ELSE MakeDate(y, m - 1, d + DaysInMonth(y, m - 1))
  ELSE IF d > DaysInMonth(y, m) THEN MakeDate(y, m + 1, d - DaysInMonth(y, m))
  ELSE <<y, m, d>>

\* the four digits of a year 0..9999
Pad4(n) ==
  <<DigitChar(n \div 1000), DigitChar((n \div 100) % 10),
    DigitChar((n \div 10) % 10), DigitChar(n % 10)>>

formatDateYMD(d) == Pad4(d[1]) \o <<"-">> \o Pad2(d[2] + 1) \o <<"-">> \o Pad2(d[3])

\* /(\d{4})[-\/](\d{1,2})[-\/](\d{1,2})/ at position p: <<y, m, d>> or <<>>
IsoAt(t, p) ==
  LET digAt(q) == q >= 1 /\ q <= Len(t) /\ IsDigit(t[q])
      sepAt(q) == q >= 1 /\ q <= Len(t) /\ t[q] \in {"-", "/"}
      y4 == digAt(p) /\ digAt(p + 1) /\ digAt(p + 2) /\ digAt(p + 3) /\ sepAt(p + 4)
      \* month: two digits when a separator follows them, else one digit
      mLen == IF digAt(p + 5) /\ digAt(p + 6) /\ sepAt(p + 7) THEN 2
              ELSE IF digAt(p + 5) /\ sepAt(p + 6) THEN 1 ELSE 0
      dPos == p + 5 + mLen + 1
      dLen == IF digAt(dPos) /\ digAt(dPos + 1) THEN 2
              ELSE IF digAt(dPos) THEN 1 ELSE 0
  IN IF y4 /\ mLen > 0 /\ dLen > 0
       THEN << 1000 * DigitVal(t[p]) + 100 * DigitVal(t[p + 1])
                 + 10 * DigitVal(t[p + 2]) + DigitVal(t[p + 3]),
               ParseInt2(SubSeq(t, p + 5, p + 4 + mLen)),
               ParseInt2(SubSeq(t, dPos, dPos + dLen - 1)) >>
       ELSE <<>>

tToday == <<"t", "o", "d", "a", "y">>

tTomorrowWord == <<"t", "o", "m", "o", "r", "r", "o", "w">>

\* lines 620-627 with the match m of the numericIso pattern
IsoDate(m) ==
  IF m[2] >= 1 /\ m[3] >= 1 THEN MakeDate(m[1], m[2] - 1, m[3]) ELSE Null

ordinalSuffixes ==
  {<<"s", "t">>, <<"n", "d">>, <<"r", "d">>, <<"t", "h">>}

\* lines 607-608: replace(/(\d+)(st|nd|rd|th)/gi, "$1") and commas to spaces
RECURSIVE Normalized(_)
Normalized(t) ==
  IF t = <<>> THEN <<>>
  ELSE IF /\ IsDigit(t[1])
          /\ Len(t) >= 3
          /\ Lower(SubSeq(t, 2, 3)) \in ordinalSuffixes
    THEN <<t[1]>> \o Normalized(SubSeq(t, 4, Len(t)))
  ELSE <<IF t[1] = "," THEN " " ELSE t[1]>> \o Normalized(SubSeq(t, 2, Len(t)))

\* the digits of /(\d{1,2})(?:st|nd|rd|th)?(?:\s|$)/ matched at position p of
\* a text without ordinal suffixes, <<>> without a match there
SingleDayAt(t, p) ==
  LET digAt(q) == q <= Len(t) /\ IsDigit(t[q])
      endAt(q) == q > Len(t) \/ IsSpace(t[q])
  IN IF digAt(p) /\ digAt(p + 1) /\ endAt(p + 2) THEN SubSeq(t, p, p + 1)
     ELSE IF digAt(p) /\ endAt(p + 1) THEN SubSeq(t, p, p)
     ELSE <<>>

\* a < b for two dates; a date built from year, month and day is at midnight
DateBefore(a, b) ==
  LET ms(d) == IF Len(d) = 4 THEN d[4] ELSE 0
  IN \/ a[1] < b[1]
     \/ a[1] = b[1] /\ a[2] < b[2]
     \/ a[1] = b[1] /\ a[2] = b[2] /\ a[3] < b[3]
     \/ a[1] = b[1] /\ a[2] = b[2] /\ a[3] = b[3] /\ ms(a) < ms(b)

\* a comparison of calendar days only
DayBefore(a, b) ==
  \/ a[1] < b[1]
  \/ a[1] = b[1] /\ a[2] < b[2]
  \/ a[1] = b[1] /\ a[2] = b[2] /\ a[3] < b[3]

\* lines 682-693 with the digits of the singleDay match
singleDay(digits, now) ==
  LET day  == ParseInt2(digits)
      cand == MakeDate(now[1], now[2], day)
  IN IF DateBefore(cand, now) THEN MakeDate(now[1], now[2] + 1, day)
     ELSE cand

\* lines 601-627 with t0 of line 600 and the positions where numericIso matches
DateFromMatches(text, t0, isoPos, clock) ==
  IF t0 = <<>> THEN Null
  ELSE IF Includes(t0, tToday) THEN clock
  ELSE IF Includes(t0, tTomorrowWord)
    THEN MakeDate(clock[1], clock[2], clock[3] + 1)
  ELSE IF isoPos # {} THEN IsoDate(IsoAt(text, FirstPos(isoPos)))
  ELSE Null

\* parseDateText for the relative terms, the ISO form and the bare day of
\* the month (the texts hold no other numeric form and no month name);
\* clock is the value of new Date().  The result is a date or Null.
parseDateText(text, clock) ==
  LET normalized == Normalized(Trim(text))
      first == DateFromMatches(normalized, Lower(Trim(text)),
                 {p \in 1..Len(normalized) : IsoAt(normalized, p) # <<>>},
                 clock)
      dayPos == {p \in 1..Len(normalized) : SingleDayAt(normalized, p) # <<>>}
  IN IF first # Null \/ Trim(text) = <<>> \/ dayPos = {} THEN first
     ELSE singleDay(SingleDayAt(normalized, FirstPos(dayPos)), clock)

(***************************************************************************)
(* Slot grid (GET /api/bookings/slots)                                     *)
(***************************************************************************)
\* "HH:MM".split(':').map(parseInt) as minutes after midnight
MinutesOf(hhmm) ==
  LET colon == CHOOSE p \in 1..Len(hhmm) : hhmm[p] = ":"
  IN 60 * ParseInt2(SubSeq(hhmm, 1, colon - 1))
       + ParseInt2(SubSeq(hhmm, colon + 1, Len(hhmm)))

\* the while loop of buildSlots, cur and end in minutes after midnight
RECURSIVE SlotsFrom(_, _, _)
SlotsFrom(cur, end, minutes) ==
  IF cur <= end
    THEN <<TimeStr((cur \div 60) % 24, cur % 60)>> \o SlotsFrom(cur + minutes, end, minutes)
    ELSE <<>>

\* a grid that stops before the closing time
buildSlotsBeforeClose(openHHMM, closeHHMM, minutes) ==
  SlotsFrom(MinutesOf(openHHMM), MinutesOf(closeHHMM) - 1, minutes)

\* lines 100-115
buildSlots(openHHMM, closeHHMM, minutes) ==
  SlotsFrom(MinutesOf(openHHMM), MinutesOf(closeHHMM), minutes)

\* String.prototype.slice(0, 5)
Slice5(t) == SubSeq(t, 1, IF Len(t) < 5 THEN Len(t) ELSE 5)

\* Array.prototype.filter
RECURSIVE SelectSeqBy(_, _)
SelectSeqBy(s, keep) ==
  IF s = <<>> THEN <<>>
  ELSE IF Head(s) \in keep THEN <<Head(s)>> \o SelectSeqBy(Tail(s), keep)
  ELSE SelectSeqBy(Tail(s), keep)

RECURSIVE RejectSeqBy(_, _)
RejectSeqBy(s, drop) ==
  IF s = <<>> THEN <<>>
  ELSE IF Head(s) \in drop THEN RejectSeqBy(Tail(s), drop)
  ELSE <<Head(s)>> \o RejectSeqBy(Tail(s), drop)

\* Array.from(new Set(xs)): first occurrences, in order
RECURSIVE Unique(_)
Unique(s) ==
  IF s = <<>> THEN <<>>
  ELSE <<Head(s)>> \o Unique(RejectSeqBy(Tail(s), {Head(s)}))

defaultOpen == <<"1", "1", ":", "0", "0">>

defaultClose == <<"2", "2", ":", "0", "0">>

defaultDuration == 30

\* the taken list of the slots route for the in-memory store
TakenOn(bookings, date) ==
  LET onDate == SelectSeq(bookings, LAMBDA b : b.bookingDate = date)
      times  == [k \in 1..Len(onDate) |-> Slice5(onDate[k].bookingTime)]
  IN Unique(SelectSeq(times, LAMBDA x : x # <<>>))

\* lines 129-141 with the grid and the taken times
SlotsBody(allSlots, taken) ==
  [slots |-> allSlots, taken |-> taken,
   available |-> RejectSeqBy(allSlots, Range(taken))]

\* the response body of GET /api/bookings/slots
SlotsResponse(bookings, date, openHHMM, closeHHMM, minutes) ==
  SlotsBody(buildSlots(openHHMM, closeHHMM, minutes), TakenOn(bookings, date))

\* a query parameter of the slots route; <<>> is the parameter left out
SlotsQuery(date, open, close, duration) ==
  [date |-> date, open |-> open, close |-> close, duration |-> duration]

\* req.query.x || dflt
ParamOr(x, dflt) == IF x = <<>> THEN dflt ELSE x

\* line 97: parseInt(req.query.duration || '30', 10)
DurationOf(q) ==
  IF q.duration = <<>> THEN defaultDuration ELSE ParseIntText(q.duration)

\* lines 95-142 with the parameters after their defaults
SlotsAnswer(bookings, date, openTime, closeTime, duration) ==
  [status |-> 200, date |-> date, open |-> openTime, close |-> closeTime,
   duration |-> duration,
   body |-> SlotsResponse(bookings, date, openTime, closeTime, duration)]

(***************************************************************************)
(* Texts used as inputs and literals                                       *)
(***************************************************************************)
tAsha ==
  <<"A", "s", "h", "a">>

tTwo ==
  <<"t", "w", "o">>

tTomorrow ==
  <<"T", "o", "m", "o", "r", "r", "o", "w">>

tSevenPm ==
  <<"7", " ", "p", "m">>

tNo ==
  <<"n", "o">>

tYes ==
  <<"Y", "e", "s">>

tOkThen ==
  <<"o", "k", " ", "t", "h", "e", "n">>

tMaybe ==
  <<"m", "a", "y", "b", "e">>

tTableAt ==
  <<"t", "a", "b", "l", "e", " ", "a", "t", " ", "8", " ", "p", "m">>

tSecondOne ==
  <<"t", "h", "e", " ", "s", "e", "c", "o", "n", "d", " ", "o", "n", "e">>

tTwelve ==
  <<"1", "2">>

tIndoor ==
  <<"i", "n", "d", "o", "o", "r">>

tOutdoor ==
  <<"o", "u", "t", "d", "o", "o", "r">>

tOutdoorCap ==
  <<"O", "u", "t", "d", "o", "o", "r">>

tUnknown ==
  <<"u", "n", "k", "n", "o", "w", "n">>

tGuest ==
  <<"G", "u", "e", "s", "t">>

tNineteen ==
  <<"1", "9", ":", "0", "0">>

tEleven ==
  <<"1", "1", ":", "0", "0">>

tTwenty ==
  <<"2", "0", ":", "0", "0">>

tIsoDate ==
  <<"2", "0", "2", "4", "-", "0", "5", "-", "1", "2">>

tRavi ==
  <<"R", "a", "v", "i">>

tAtSevenPm ==
  <<"a", "t", " ", "7", " ", "p", "m">>

tThai ==
  <<"t", "h", "a", "i">>

tThaiForMe ==
  <<"t", "h", "a", "i", " ", "f", "o", "r", " ", "m", "e">>

tCake ==
  <<"c", "a", "k", "e">>

tEighteen ==
  <<"1", "8", ":", "0", "0">>

tEighteenThirty ==
  <<"1", "8", ":", "3", "0">>

tNineteenThirty ==
  <<"1", "9", ":", "3", "0">>

tQuarterPastSeven ==
  <<"1", "9", ":", "1", "5">>

tFortyFive ==
  <<"4", "5">>

tSixty ==
  <<"6", "0">>

tClear ==
  <<"C", "l", "e", "a", "r">>

tThunderstorm ==
  <<"T", "h", "u", "n", "d", "e", "r", "s", "t", "o", "r", "m">>

tSnow ==
  <<"S", "n", "o", "w">>

tDrizzle ==
  <<"D", "r", "i", "z", "z", "l", "e">>

tClouds ==
  <<"C", "l", "o", "u", "d", "s">>

\* a value is truthy when it is neither null/undefined nor the empty string
Truthy(text) == text # <<>> /\ text # Null

(***************************************************************************)
(* Choosing an offered slot (askUserToPickSlot, after the capture)         *)
(***************************************************************************)
firstWords == {<<"f", "i", "r", "s", "t">>, <<"1", "s", "t">>, <<"o", "n", "e">>}

secondWords == {<<"s", "e", "c", "o", "n", "d">>, <<"2", "n", "d">>, <<"t", "w", "o">>}

thirdWords == {<<"t", "h", "i", "r", "d">>, <<"3", "r", "d">>, <<"t", "h", "r", "e", "e">>}

\* /\b(w1|w2|...)\b/ has a match in t
WordMatch(t, words) ==
  \E w \in words : \E p \in 1..Len(t) :
    MatchesAt(t, p, w) /\ WordBoundaryAt(t, p) /\ WordBoundaryAt(t, p + Len(w))

\* s.split(':')[0]
HourPart(s) ==
  IF \E p \in 1..Len(s) : s[p] = ":"
    THEN SubSeq(s, 1, (CHOOSE p \in 1..Len(s) :
                         s[p] = ":" /\ \A q \in 1..(p - 1) : s[q] # ":") - 1)
    ELSE s

\* String(n) for -99 <= n <= 99
NumText(n) ==
  IF n < 0 THEN <<"-">> \o (IF -n < 10 THEN <<DigitChar(-n)>> ELSE Pad2(-n))
  ELSE IF n < 10 THEN <<DigitChar(n)>> ELSE Pad2(n)

\* Array.prototype.find: the first element of s at an index in hits (the
\* indices whose element passes the test), else Null
FirstWhere(s, hits) ==
  IF hits = {} THEN Null
  ELSE s[CHOOSE k \in hits : \A j \in hits : k <= j]

\* offeredSlots[k] || null (k is 0-based in the code, 1-based here)
OfferedOrNull(offered, k) == IF k <= Len(offered) THEN offered[k] ELSE Null

\* line 818: the first offered slot with the hour of norm
ByHour(offeredSlots, norm) ==
  FirstWhere(offeredSlots,
             {k \in 1..Len(offeredSlots) :
                HourPart(offeredSlots[k]) = HourPart(norm)})

\* lines 828-830: the reply contains the slot, its digits, or its hour on
\* the 12-hour clock
MentionedIn(pickResp, x) ==
  \/ Includes(pickResp, x)
  \/ Includes(pickResp, ReplaceFirst(x, <<":">>, <<>>))
  \/ Includes(pickResp, NumText(ParseInt2(HourPart(x)) % 12))

\* lines 822-833 with the lowered reply
PickByWord(offeredSlots, pickResp, lower) ==
  IF WordMatch(lower, firstWords) THEN OfferedOrNull(offeredSlots, 1)
  ELSE IF WordMatch(lower, secondWords) THEN OfferedOrNull(offeredSlots, 2)
  ELSE IF WordMatch(lower, thirdWords) THEN OfferedOrNull(offeredSlots, 3)
  ELSE FirstWhere(offeredSlots,
                  {k \in 1..Len(offeredSlots) :
                     MentionedIn(pickResp, offeredSlots[k])})

\* a pick that takes the time as it was said
PickByTimeAsSaid(offeredSlots, norm, foundByHour) == norm

\* lines 815-819 with norm of line 815 and the slot found by its hour
PickByTime(offeredSlots, norm, foundByHour) ==
  IF norm \in Range(offeredSlots) THEN norm ELSE foundByHour

\* lines 813-833 with the parsed time of the reply
PickParsed(offeredSlots, pickResp, parsed, byTime) ==
  IF parsed # Null /\ byTime # Null THEN byTime
  ELSE PickByWord(offeredSlots, pickResp, Lower(pickResp))

\* lines 813-819 with norm of line 815
PickNorm(offeredSlots, pickResp, parsed, norm) ==
  PickParsed(offeredSlots, pickResp, parsed,
             PickByTime(offeredSlots, norm, ByHour(offeredSlots, norm)))

\* lines 813-833 with the result of parseTimeText
PickTime(offeredSlots, pickResp, parsed) ==
  PickNorm(offeredSlots, pickResp, parsed, Slice5(parsed))

PickSlot(offeredSlots, pickResp) ==
  IF pickResp = <<>> THEN Null
  ELSE PickTime(offeredSlots, pickResp, parseTimeText(pickResp))

(***************************************************************************)
(* The conversation: flow, inputs                                          *)
(***************************************************************************)
flow ==
  <<"customerName", "numberOfGuests", "bookingDate", "bookingTime",
    "cuisinePreference", "specialRequests">>

NFields == Len(flow)

AnswerKeys == {flow[k] : k \in 1..NFields} \cup {"seatingPreference"}

\* transcript.split(/\s+/).length of a trimmed, non-empty transcript
WordCount(t) ==
  1 + Cardinality({p \in 2..Len(t) : IsSpace(t[p - 1]) /\ ~IsSpace(t[p])})

shouldCallNLP(transcript) ==
  /\ transcript # <<>>
  /\ \/ WordCount(transcript) > 4
     \/ \E k \in nlpKeywords : Includes(Lower(transcript), k)

\* what callNLP can return: null, or an intent (absent fields are Null)
EmptyIntent ==
  [present |-> TRUE, bookingDate |-> Null, bookingTime |-> Null,
   hasGuests |-> FALSE, numberOfGuests |-> 0,
   cuisinePreference |-> Null, specialRequests |-> Null,
   seatingPreference |-> Null]

NullIntent == [EmptyIntent EXCEPT !.present = FALSE]

\* what the fetch of callNLP comes to: it rejects, or it resolves with a
\* status that is ok or not and a body whose intent key holds an intent or
\* nothing (NullIntent)
NlpResponse(rejected, ok, intent) ==
  [rejected |-> rejected, ok |-> ok, intent |-> intent]

\* the response behind an outcome of the extractor: a body with the intent,
\* or the 404 of a backend that does not mount the route (index.js 32-33)
ResponseOf(intent) == NlpResponse(FALSE, intent.present, intent)

\* a callNLP that hands on whatever the body holds
callNLPTrusting(resp) == resp.intent

\* lines 729-749
callNLP(resp) ==
  IF resp.rejected THEN NullIntent
  ELSE IF ~resp.ok THEN NullIntent
  ELSE IF resp.intent.present THEN resp.intent
  ELSE NullIntent

\* what fetchWeatherSuggestion can return: { ok:false } or { ok:true, data }
WeatherFailed == [ok |-> FALSE, seatingRecommendation |-> Null]

WeatherSays(r) == [ok |-> TRUE, seatingRecommendation |-> r]

\* the value of new Date() during the session: a day in May, at noon
Noon == 43200000
Clock == <<2024, 4, 10, Noon>>

Today == formatDateYMD(Clock)

TomorrowYMD == formatDateYMD(MakeDate(Clock[1], Clock[2], Clock[3] + 1))

Grid == buildSlots(defaultOpen, defaultClose, defaultDuration)

tSessionId ==
  <<"b", "k", "-", "1">>

SeedBooking(date, time) ==
  [bookingId |-> <<"s">> \o date \o time, customerName |-> tRavi,
   numberOfGuests |-> 2, bookingDate |-> date, bookingTime |-> time,
   seatingPreference |-> tIndoor, status |-> "confirmed"]

\* bookings at every grid slot of a date except the slots in free
DayFull(date, free) ==
  LET times == RejectSeqBy(Grid, free)
  IN [k \in 1..Len(times) |-> SeedBooking(date, times[k])]

\* a booking request of another client
OtherBody(date, time) ==
  [bookingId |-> <<"b", "k", "-", "o">>, customerName |-> tRavi,
   numberOfGuests |-> 2, bookingDate |-> date, bookingTime |-> time,
   seatingPreference |-> Null, phone |-> Null, email |-> Null]

\* a booking request of a client that passes contact information
ContactBody(date, time, phone, email) ==
  [OtherBody(date, time) EXCEPT !.phone = phone, !.email = email]

(***************************************************************************)
(* What the environment supplies in a run: the user's transcripts, the     *)
(* results of the NLP and weather lookups, the store at the start and the  *)
(* requests of other clients                                               *)
(***************************************************************************)
\* a talkative user, NLP intents, every weather outcome; no other client
DialogueInputs ==
  [transcripts |->
     [k \in AnswerKeys |->
        CASE k = "customerName"      -> {<<>>, tAsha, tTableAt}
          [] k = "numberOfGuests"    -> {<<>>, tTwo}
          [] k = "bookingDate"       -> {<<>>, tTomorrow}
          [] k = "bookingTime"       -> {<<>>, tSevenPm}
          [] k = "cuisinePreference" -> {tNo}
          [] k = "specialRequests"   -> {tNo}
          [] OTHER                   -> {}],
   nlp |-> { NullIntent,
             [EmptyIntent EXCEPT !.bookingTime = tTwenty],
             [EmptyIntent EXCEPT !.bookingDate = tIsoDate],
             [EmptyIntent EXCEPT !.seatingPreference = tIndoor] },
   weather |-> { WeatherFailed, WeatherSays(tIndoor), WeatherSays(tOutdoorCap),
                 WeatherSays(tUnknown) },
   seatReplies |-> {<<>>, tYes, tNo, tOkThen},
   confirmReplies |-> {<<>>, tYes, tNo, tOkThen},
   pickReplies |-> {<<>>, tTwelve},
   stores |-> { <<>>,
                <<SeedBooking(Today, tNineteen), SeedBooking(TomorrowYMD, tNineteen),
                  SeedBooking(Today, tTwenty), SeedBooking(TomorrowYMD, tTwenty)>> },
   otherBodies |-> {}]

\* a user who answers every prompt, a busy store and other clients booking
\* at the same time
NegotiationInputs ==
  [transcripts |->
     [k \in AnswerKeys |->
        CASE k = "customerName"      -> {tAsha}
          [] k = "numberOfGuests"    -> {tTwo}
          [] k = "bookingDate"       -> {tTomorrow}
          [] k = "bookingTime"       -> {tSevenPm}
          [] k = "cuisinePreference" -> {tNo}
          [] k = "specialRequests"   -> {<<>>, tNo}
          [] OTHER                   -> {}],
   nlp |-> { NullIntent },
   weather |-> { WeatherSays(tOutdoor) },
   seatReplies |-> {tYes},
   confirmReplies |-> {tYes, tNo},
   pickReplies |-> {<<>>, tSecondOne, tTwelve, tMaybe},
   stores |-> { <<>>,
                <<SeedBooking(TomorrowYMD, tNineteen)>>,
                DayFull(TomorrowYMD, {}),
                DayFull(TomorrowYMD, {tEighteen, tEighteenThirty,
                                      tNineteenThirty}) },
   otherBodies |-> { OtherBody(TomorrowYMD, tEleven),
                     OtherBody(TomorrowYMD, tNineteen) }]

tZero ==
  <<"0">>

tZeroWord ==
  <<"z", "e", "r", "o">>

tMinusThree ==
  <<"-", "3">>

tLots ==
  <<"l", "o", "t", "s">>

tTwentyFiveWords ==
  <<"t", "w", "e", "n", "t", "y", " ", "f", "i", "v", "e">>

tTwentyFive ==
  <<"2", "5">>

tSevenNinetyNine ==
  <<"7", ":", "9", "9">>

tForThree ==
  <<"f", "o", "r", " ", "3", " ", "p", "e", "o", "p", "l", "e">>

\* a user who names the guests and the time in many ways, and intents that
\* carry a guest count or a time
PayloadInputs ==
  [transcripts |->
     [k \in AnswerKeys |->
        CASE k = "customerName"      -> {tAsha, tTableAt}
          [] k = "numberOfGuests"    -> {<<>>, tTwo, tZero, tZeroWord, tMinusThree,
                                         tLots, tTwentyFiveWords, tForThree}
          [] k = "bookingDate"       -> {tTomorrow}
          [] k = "bookingTime"       -> {<<>>, tSevenPm, tTwentyFive,
                                         tSevenNinetyNine}
          [] k = "cuisinePreference" -> {tNo}
          [] k = "specialRequests"   -> {tNo}
          [] OTHER                   -> {}],
   nlp |-> { NullIntent,
             [EmptyIntent EXCEPT !.hasGuests = TRUE, !.numberOfGuests = 0],
             [EmptyIntent EXCEPT !.hasGuests = TRUE, !.numberOfGuests = -3],
             [EmptyIntent EXCEPT !.hasGuests = TRUE, !.numberOfGuests = 4,
                                 !.bookingTime = tTwenty] },
   weather |-> { WeatherSays(tOutdoor) },
   seatReplies |-> {tYes},
   confirmReplies |-> {tYes, tNo},
   pickReplies |-> {},
   stores |-> { <<>> },
   otherBodies |-> {}]

tPhone ==
  <<"+", "9", "1", "9", "8", "7", "6", "5">>

tEmail ==
  <<"a", "@", "b", ".", "i", "n">>

\* a user who gave an email address or a phone number before starting, and
\* other clients that pass contact information with their requests; one
\* store holds a booking with the bookingId the other client will use
NotifyInputs ==
  [transcripts |->
     [k \in AnswerKeys |->
        CASE k = "customerName"      -> {tAsha}
          [] k = "numberOfGuests"    -> {tTwo}
          [] k = "bookingDate"       -> {tTomorrow}
          [] k = "bookingTime"       -> {tSevenPm}
          [] k = "cuisinePreference" -> {tNo}
          [] k = "specialRequests"   -> {tNo}
          [] OTHER                   -> {}],
   nlp |-> { NullIntent },
   weather |-> { WeatherSays(tOutdoor) },
   seatReplies |-> {tYes},
   confirmReplies |-> {tYes},
   pickReplies |-> {},
   contactModes |-> {"email", "both"},
   stores |-> { <<>>,
                <<[SeedBooking(TomorrowYMD, tEleven) EXCEPT
                     !.bookingId = OtherBody(TomorrowYMD, tEleven).bookingId
                                     \o NumText(1)]>> },
   otherBodies |->
     { [b EXCEPT !.seatingPreference = tIndoor] :
         b \in { ContactBody(TomorrowYMD, tTwenty, tPhone, Null),
                 ContactBody(TomorrowYMD, tTwenty, Null, tEmail),
                 ContactBody(TomorrowYMD, tTwenty, tPhone, tEmail),
                 ContactBody(TomorrowYMD, tEleven, tPhone, tEmail),
                 [ContactBody(TomorrowYMD, tTwenty, tPhone, tEmail) EXCEPT
                    !.customerName = <<>>] } }]

tOtherId ==
  <<"b", "k", "-", "x">>

tTwoSpaced ==
  <<" ", "t", "w", "o", " ", " ">>

tBlank ==
  <<" ">>

\* what the recognizer hears in a call of listenOnce
ListenInputs ==
  [transcripts |->
     [k \in AnswerKeys |->
        IF k = "customerName" THEN {tAsha, tTwoSpaced, tBlank, <<>>} ELSE {}],
   nlp |-> { NullIntent },
   weather |-> { WeatherSays(tOutdoor) },
   seatReplies |-> {},
   confirmReplies |-> {},
   pickReplies |-> {},
   stores |-> { <<>> },
   otherBodies |-> {}]

\* scenario A: the user says Asha, two, tomorrow, 7 pm, nothing for the
\* cuisine and the special requests, and yes to an outdoor table; or the
\* user names the table and the guests in sentences; the extractor fails in
\* every way or answers with intents for other values
ScenarioInputs ==
  [transcripts |->
     [k \in AnswerKeys |->
        CASE k = "customerName"      -> {tAsha, tTableAt}
          [] k = "numberOfGuests"    -> {tTwo, tForThree}
          [] k = "bookingDate"       -> {tTomorrow}
          [] k = "bookingTime"       -> {tSevenPm}
          [] k = "cuisinePreference" -> {<<>>}
          [] k = "specialRequests"   -> {<<>>}
          [] OTHER                   -> {}],
   nlp |-> { NullIntent },
   nlpResponses |->
     { NlpResponse(TRUE, FALSE, NullIntent),
       NlpResponse(FALSE, FALSE, NullIntent),
       NlpResponse(FALSE, FALSE,
                   [EmptyIntent EXCEPT !.seatingPreference = tIndoor,
                                       !.bookingDate = tIsoDate]),
       NlpResponse(FALSE, TRUE, NullIntent),
       NlpResponse(FALSE, TRUE,
                   [EmptyIntent EXCEPT !.seatingPreference = tIndoor,
                                       !.hasGuests = TRUE,
                                       !.numberOfGuests = 4]),
       NlpResponse(FALSE, TRUE,
                   [EmptyIntent EXCEPT !.bookingDate = tIsoDate,
                                       !.bookingTime = tTwenty,
                                       !.cuisinePreference = tThai]),
       NlpResponse(FALSE, TRUE,
                   [EmptyIntent EXCEPT !.specialRequests = tCake,
                                       !.seatingPreference = tOutdoor]) },
   weather |-> { WeatherSays(tOutdoor) },
   seatReplies |-> {tYes},
   confirmReplies |-> {tYes, tNo},
   pickReplies |-> {},
   stores |-> { <<>> },
   otherBodies |-> {}]

\* clients that choose their bookingIds: two requests with the same
\* bookingId at different times, one with another bookingId at a time of
\* the first, and a store that already holds the first bookingId
StoreInputs ==
  [transcripts |-> [k \in AnswerKeys |-> {}],
   nlp |-> { NullIntent },
   weather |-> { WeatherSays(tOutdoor) },
   seatReplies |-> {},
   confirmReplies |-> {},
   pickReplies |-> {},
   stores |-> { <<>>,
                <<[SeedBooking(TomorrowYMD, tNineteen) EXCEPT
                     !.bookingId = OtherBody(TomorrowYMD, tEleven).bookingId]>> },
   otherBodies |->
     { OtherBody(TomorrowYMD, tEleven),
       OtherBody(TomorrowYMD, tTwenty),
       [OtherBody(TomorrowYMD, tEleven) EXCEPT !.bookingId = tOtherId] }]

\* clients whose requests arrive one after the other: a request for a free
\* slot, one for the slot of the seed, one without a name, one that names a
\* seating of its own, one with the bookingId of the seed
tPatio == <<"P", "a", "t", "i", "o">>
SerialInputs ==
  [StoreInputs EXCEPT
     !.stores = { <<>>,
                  <<[SeedBooking(TomorrowYMD, tNineteen) EXCEPT
                       !.bookingId = OtherBody(TomorrowYMD, tEleven).bookingId]>> },
     !.otherBodies =
       { OtherBody(TomorrowYMD, tEleven),
         [OtherBody(TomorrowYMD, tNineteen) EXCEPT !.bookingId = tOtherId],
         [OtherBody(TomorrowYMD, tEleven) EXCEPT !.bookingId = tOtherId,
                                                 !.customerName = <<>>],
         [OtherBody(TomorrowYMD, tTwenty) EXCEPT !.bookingId = tOtherId,
                                                 !.seatingPreference = tPatio] }]

\* a user whose answers are sent to the interpreter at most steps, and
\* intents that carry values for fields asked earlier and later
DraftInputs ==
  [transcripts |->
     [k \in AnswerKeys |->
        CASE k = "customerName"      -> {tAsha, tTableAt}
          [] k = "numberOfGuests"    -> {<<>>, tTwo}
          [] k = "bookingDate"       -> {tTomorrow}
          [] k = "bookingTime"       -> {tSevenPm, tAtSevenPm}
          [] k = "cuisinePreference" -> {tThai, tThaiForMe}
          [] k = "specialRequests"   -> {tNo}
          [] OTHER                   -> {}],
   nlp |-> { NullIntent,
             [EmptyIntent EXCEPT !.bookingDate = tIsoDate, !.hasGuests = TRUE,
                                 !.numberOfGuests = 4,
                                 !.seatingPreference = tOutdoor],
             [EmptyIntent EXCEPT !.bookingDate = tIsoDate,
                                 !.bookingTime = tTwenty,
                                 !.cuisinePreference = tThai,
                                 !.specialRequests = tCake,
                                 !.seatingPreference = tOutdoor],
             [EmptyIntent EXCEPT !.seatingPreference = tIndoor] },
   weather |-> { WeatherSays(tIndoor), WeatherSays(tOutdoor) },
   seatReplies |-> {tYes, tNo, tOkThen},
   confirmReplies |-> {tYes, tNo},
   pickReplies |-> {},
   stores |-> { <<>> },
   otherBodies |-> {}]

(***************************************************************************)
(* State                                                                   *)
(***************************************************************************)
VARIABLES
  \* startConversation: the await it is suspended on, and its locals
  pc, i, answers, transcript, seatingPreferenceFromUser, weatherResp, rec,
  prefResp, payload, confirmResp, alternatives, pickResp, chosen,
  \* module-level flags of voice.js and the listening state of App.jsx
  running, stopRequested, listening,
  \* the environment of the run
  inputs, speechSupported,
  \* backend: inMemoryBookings and the POST requests being handled
  store, req, otherPosts,
  \* backend: the GET /api/weather request being handled, and the last
  \* answer of GET /api/bookings/slots
  wx, slotsResp,
  \* history of the session: the submissions made, the status of the
  \* responses read, the slot queries made, the results of callNLP, the
  \* captures of the field asked last, the steps begun, the stop signal
  posts, statuses, slotQueries, intents, ask, steps, stopAt, afterStop,
  outcome,
  \* speak() and listenOnce() seen from inside: the caller's position, the
  \* number of speak() calls made, whether getVoices() is non-empty, the
  \* calls with a voiceschanged listener and with a pending 800 ms timer,
  \* the utterances in the synthesis queue, the calls whose promise is
  \* resolved, the recognizer, and what was playing when a capture began
  callerPc, call, voicesLoaded, listeners, timers, playing, resolved, micOn,
  playingAtCapture,
  \* App.jsx: the contact mode chosen before the conversation starts; whether
  \* a second conversation was started while the first was still suspended
  contactMode, second,
  \* backend: the notification task of each stored booking, the notification
  \* attempts made, the number of create and delete requests sent straight
  \* to the bookings route, and the answers to the delete requests
  notif, attempts, calls, deletes,
  \* one call of listenOnce: its recognizer, timer and promise
  lo,
  \* one call of a parsing helper: its argument and what it returned
  parsed

dialogVars == <<answers, transcript, seatingPreferenceFromUser>>

seatVars == <<weatherResp, rec, prefResp>>

submitVars == <<confirmResp, alternatives, pickResp, chosen>>

flagVars == <<running, stopRequested, listening>>

envVars == <<inputs, speechSupported>>

sideVars ==
  <<contactMode, second, notif, attempts, calls, deletes, lo, parsed>>

backendVars == <<store, req, otherPosts>>

routeVars == <<wx, slotsResp>>

countVars == <<posts, statuses, slotQueries, intents>>

speakVars ==
  <<callerPc, call, voicesLoaded, listeners, timers, playing, resolved, micOn,
    playingAtCapture>>

vars ==
  <<pc, i, payload, dialogVars, seatVars, submitVars, flagVars, envVars, sideVars, routeVars,
    backendVars, countVars, ask, steps, stopAt, afterStop, outcome, speakVars>>

\* client 0 is the conversation; 1..MaxOtherPosts are bookings made by
\* other clients (the slot picker, another browser)
Clients == 0..MaxOtherPosts

NoPayload ==
  [bookingId |-> Null, customerName |-> Null, numberOfGuests |-> 0,
   bookingDate |-> Null, bookingTime |-> Null, seatingPreference |-> Null,
   phone |-> Null, email |-> Null]

NoRequest == [pc |-> "none", body |-> NoPayload, status |-> 0]

NoAsk == [key |-> "none", captures |-> 0, reprompts |-> 0, first |-> Null]

\* no notification task: the request stored no booking (yet)
NoNotification ==
  [pc |-> "none", phone |-> Null, email |-> Null, sms |-> "none",
   mail |-> "none"]

\* no parsing helper has been called
NoParse ==
  [fn |-> "none", text |-> <<>>, today |-> <<>>, result |-> <<>>,
   value |-> <<>>]

\* listenOnce has not been called
NoListen ==
  [pc |-> "idle", finished |-> FALSE, handlers |-> FALSE, timer |-> "none",
   events |-> <<>>, resolvedWith |-> <<>>]

\* no GET /api/weather request has arrived
NoWeatherRequest ==
  [pc |-> "none", date |-> <<>>, targetSeconds |-> 0, daily |-> <<>>,
   status |-> 0,
   body |-> [weatherSummary |-> "", seatingRecommendation |-> Null,
             forecast |-> [dt |-> -1, pop |-> -1, main |-> Null], note |-> ""]]

\* no GET /api/bookings/slots request has been answered
NoSlotsResponse ==
  [status |-> 0, date |-> <<>>, open |-> <<>>, close |-> <<>>, duration |-> 0,
   body |-> [slots |-> <<>>, taken |-> <<>>, available |-> <<>>]]

\* no speak() call has been made
SpeakIdle ==
  /\ callerPc = "ready"
  /\ call = 0
  /\ listeners = {}
  /\ timers = {}
  /\ playing = <<>>
  /\ resolved = {}
  /\ micOn = FALSE
  /\ playingAtCapture = <<>>

SessionInit(inp) ==
  /\ pc = "idle"
  /\ i = 0
  /\ answers = [k \in AnswerKeys |-> <<>>]
  /\ transcript = <<>>
  /\ seatingPreferenceFromUser = Null
  /\ weatherResp = WeatherFailed
  /\ rec = <<>>
  /\ prefResp = <<>>
  /\ payload = NoPayload
  /\ confirmResp = <<>>
  /\ alternatives = <<>>
  /\ pickResp = <<>>
  /\ chosen = Null
  /\ running = FALSE
  /\ stopRequested = FALSE
  /\ listening = FALSE
  /\ inputs = inp
  /\ speechSupported \in BOOLEAN
  /\ contactMode \in (IF "contactModes" \in DOMAIN inp THEN inp.contactModes
                      ELSE {"none"})
  /\ second = FALSE
  /\ notif = [c \in Clients |-> NoNotification]
  /\ attempts = <<>>
  /\ calls = 0
  /\ deletes = <<>>
  /\ lo = NoListen
  /\ parsed = NoParse
  /\ store \in inp.stores
  /\ req = [c \in Clients |-> NoRequest]
  /\ otherPosts = 0
  /\ posts = <<>>
  /\ statuses = <<>>
  /\ slotQueries = 0
  /\ intents = <<>>
  /\ wx = NoWeatherRequest
  /\ slotsResp = NoSlotsResponse
  /\ ask = NoAsk
  /\ steps = <<>>
  /\ stopAt = "none"
  /\ afterStop = {}
  /\ outcome = "none"

Init == SessionInit(DialogueInputs) /\ SpeakIdle /\ voicesLoaded = TRUE

InitNegotiation ==
  SessionInit(NegotiationInputs) /\ SpeakIdle /\ voicesLoaded = TRUE

InitDraft == SessionInit(DraftInputs) /\ SpeakIdle /\ voicesLoaded = TRUE

InitPayload == SessionInit(PayloadInputs) /\ SpeakIdle /\ voicesLoaded = TRUE

InitNotify == SessionInit(NotifyInputs) /\ SpeakIdle /\ voicesLoaded = TRUE

InitScenario ==
  SessionInit(ScenarioInputs) /\ SpeakIdle /\ voicesLoaded = TRUE

InitListen ==
  SessionInit(ListenInputs) /\ SpeakIdle /\ voicesLoaded = TRUE

InitParse ==
  /\ SessionInit(ListenInputs)
  /\ speechSupported = TRUE
  /\ SpeakIdle
  /\ voicesLoaded = TRUE

InitStore ==
  /\ SessionInit(StoreInputs)
  /\ speechSupported = TRUE
  /\ SpeakIdle
  /\ voicesLoaded = TRUE

InitSerial ==
  /\ SessionInit(SerialInputs)
  /\ speechSupported = TRUE
  /\ SpeakIdle
  /\ voicesLoaded = TRUE

InitSpeak ==
  /\ SessionInit(DialogueInputs)
  /\ speechSupported = TRUE
  /\ store = <<>>
  /\ SpeakIdle
  /\ voicesLoaded \in BOOLEAN

(***************************************************************************)
(* startConversation: pure parts                                           *)
(***************************************************************************)
\* lines 885-900: the side the seating question suggests
RecFromWeather(w) ==
  IF w.ok
    THEN LET r0 == Lower(IF Truthy(w.seatingRecommendation)
                           THEN w.seatingRecommendation ELSE <<>>)
         IN IF r0 = tOutdoor THEN tOutdoor
            ELSE IF r0 = tIndoor THEN tIndoor
            ELSE tOutdoor
    ELSE tIndoor

\* lines 918-924 with the two classifications of the reply
SeatingFor(r, affirmative, negative) ==
  IF affirmative /\ ~negative
    THEN (IF r = tOutdoor THEN tOutdoor
          ELSE IF r = tIndoor THEN tIndoor
          ELSE IF Truthy(r) THEN r ELSE tOutdoor)
  ELSE IF negative /\ ~affirmative
    THEN (IF r = tOutdoor THEN tIndoor
          ELSE IF r = tIndoor THEN tOutdoor
          ELSE tIndoor)
  ELSE Null

\* a seating reply whose negative words are ignored
SeatingFromReplyIgnoringNegative(r, reply) ==
  SeatingFor(r, isAffirmative(reply), FALSE)

\* lines 915-924: seatingPreferenceFromUser after the seating reply
SeatingFromReply(r, reply) ==
  SeatingFor(r, isAffirmative(reply), isNegative(reply))

\* a confirmation that only a refusal cancels
confirmedFlagUnlessRefused(reply) == ~isNegative(reply)

\* line 1027: the reply to the final confirmation allows the submission
confirmedFlag(reply) == isAffirmative(reply)

\* a merge that lets the intent replace values the draft already holds
MergeIntentOverwriting(ans, intent) ==
  [k \in AnswerKeys |->
     IF k = "bookingDate" /\ Truthy(intent.bookingDate)
       THEN intent.bookingDate
     ELSE IF k = "bookingTime" /\ Truthy(intent.bookingTime)
       THEN intent.bookingTime
     ELSE IF k = "numberOfGuests" /\ intent.hasGuests
       THEN NumText(intent.numberOfGuests)
     ELSE IF k = "cuisinePreference" /\ Truthy(intent.cuisinePreference)
       THEN intent.cuisinePreference
     ELSE IF k = "specialRequests" /\ Truthy(intent.specialRequests)
       THEN intent.specialRequests
     ELSE ans[k]]

\* lines 948-952: the intent merged into answers
MergeIntent(ans, intent) ==
  [k \in AnswerKeys |->
     IF k = "bookingDate" /\ Truthy(intent.bookingDate) /\ ~Truthy(ans[k])
       THEN intent.bookingDate
     ELSE IF k = "bookingTime" /\ Truthy(intent.bookingTime) /\ ~Truthy(ans[k])
       THEN intent.bookingTime
     ELSE IF k = "numberOfGuests" /\ intent.hasGuests /\ ~Truthy(ans[k])
       THEN NumText(intent.numberOfGuests)
     ELSE IF k = "cuisinePreference" /\ Truthy(intent.cuisinePreference) /\ ~Truthy(ans[k])
       THEN intent.cuisinePreference
     ELSE IF k = "specialRequests" /\ Truthy(intent.specialRequests) /\ ~Truthy(ans[k])
       THEN intent.specialRequests
     ELSE ans[k]]

\* a merge that lets the intent replace the seating the user chose
MergeSeatingOverwriting(seatU, intent) ==
  IF Truthy(intent.seatingPreference)
    THEN intent.seatingPreference
    ELSE seatU

\* line 953
MergeSeating(seatU, intent) ==
  IF Truthy(intent.seatingPreference) /\ ~Truthy(seatU)
    THEN intent.seatingPreference
    ELSE seatU

\* x || dflt for a value that is Null when absent
OrElse(x, dflt) == IF x = Null THEN dflt ELSE x

\* lines 985-1014: the payload built from the answers
BuildPayload(ans, seatU) ==
  [bookingId |-> tSessionId,
   customerName |->
     IF Truthy(ans["customerName"]) THEN ans["customerName"] ELSE tGuest,
   numberOfGuests |-> noGuests(ans["numberOfGuests"]),
   bookingDate |->
     formatDateYMD(OrElse(parseDateText(ans["bookingDate"], Clock), Clock)),
   bookingTime |-> OrElse(parseTimeText(ans["bookingTime"]), tNineteen),
   seatingPreference |->
     IF Truthy(seatU) THEN seatU
     ELSE IF Truthy(ans["seatingPreference"]) THEN ans["seatingPreference"]
     ELSE Null,
   \* the payload has no phone and no email key
   phone |-> Null,
   email |-> Null]

\* line 872: the field is already filled and its iteration is skipped
Filled(ans, k) == Truthy(ans[flow[k]])

\* lines 868-875 and 976-1022: the for loop entered at index j with the given
\* answers, run up to its next await; step is the step that begins there and
\* started the kind of operation that was started
Continue(j, ans, seatU) ==
  LET unfilled == {k \in j..NFields : ~Filled(ans, k)}
      k == IF unfilled = {} THEN NFields + 1
           ELSE CHOOSE x \in unfilled : \A y \in unfilled : x <= y
  IN IF stopRequested
       THEN [pc |-> "speakStop", i |-> j, payload |-> payload,
             step |-> <<>>, started |-> {}]
     ELSE IF k > NFields
       THEN [pc |-> "speakConfirm", i |-> k, payload |-> BuildPayload(ans, seatU),
             step |-> <<"confirm">>, started |-> {"confirmPrompt"}]
     ELSE IF flow[k] = "bookingTime"
       THEN [pc |-> "fetchWeather", i |-> k, payload |-> payload,
             step |-> <<"seating">>, started |-> {"weather"}]
     ELSE [pc |-> "speakPrompt", i |-> k, payload |-> payload,
           step |-> <<flow[k]>>, started |-> {"mainPrompt"}]

\* operations started by an action that runs after the stop signal
Mark(kinds) ==
  afterStop' = IF stopRequested THEN afterStop \cup kinds ELSE afterStop

Resume(c) ==
  /\ pc' = c.pc
  /\ i' = c.i
  /\ payload' = c.payload
  /\ steps' = steps \o c.step
  /\ Mark(c.started)


(***************************************************************************)
(* startConversation: one action per await                                 *)
(***************************************************************************)
\* a start that resets the flags before it checks the runtime
StartConversationFlagsFirst ==
  /\ pc = "idle"
  /\ ~listening
  /\ listening' = TRUE
  /\ stopRequested' = FALSE
  /\ running' = TRUE
  /\ pc' = IF speechSupported THEN "speakGreet" ELSE "speakUnsupported"
  /\ UNCHANGED <<i, payload, dialogVars, seatVars, submitVars, envVars, sideVars, routeVars,
                 backendVars, countVars, ask, steps, stopAt, afterStop,
                 outcome, speakVars>>

\* App.jsx handleStartConversation and lines 837-866
StartConversation ==
  /\ pc = "idle"
  /\ ~listening
  /\ listening' = TRUE
  /\ IF speechSupported
       THEN /\ stopRequested' = FALSE
            /\ running' = TRUE
            /\ pc' = "speakGreet"
       ELSE /\ UNCHANGED <<stopRequested, running>>
            /\ pc' = "speakUnsupported"
  /\ UNCHANGED <<i, payload, dialogVars, seatVars, submitVars, envVars, sideVars, routeVars,
                 backendVars, countVars, ask, steps, stopAt, afterStop,
                 outcome, speakVars>>

\* lines 844-845: the notice was spoken and the function returns
UnsupportedDone ==
  /\ pc = "speakUnsupported"
  /\ pc' = "done"
  /\ outcome' = "unsupported"
  /\ listening' = FALSE
  /\ UNCHANGED <<i, payload, dialogVars, seatVars, submitVars, running,
                 stopRequested, envVars, sideVars, routeVars, backendVars, countVars, ask, steps,
                 stopAt, afterStop, speakVars>>

\* line 866 resolves; the loop is entered
GreetDone ==
  /\ pc = "speakGreet"
  /\ Resume(Continue(1, answers, seatingPreferenceFromUser))
  /\ UNCHANGED <<dialogVars, seatVars, submitVars, flagVars, envVars, sideVars, routeVars,
                 backendVars, countVars, ask, stopAt, outcome, speakVars>>

\* line 881 resolves; lines 882-903
WeatherFetched ==
  /\ pc = "fetchWeather"
  /\ \E w \in inputs.weather :
       /\ weatherResp' = w
       /\ rec' = RecFromWeather(w)
  /\ pc' = "speakSuggest"
  /\ Mark({"seatPrompt"})
  /\ UNCHANGED <<i, payload, dialogVars, prefResp, submitVars, flagVars,
                 envVars, sideVars, routeVars, backendVars, countVars, ask, steps, stopAt, outcome,
                 speakVars>>

\* line 903 resolves; line 904 starts the capture
SuggestDone ==
  /\ pc = "speakSuggest"
  /\ pc' = "listenSeat"
  /\ Mark({"capture"})
  /\ UNCHANGED <<i, payload, dialogVars, seatVars, submitVars, flagVars,
                 envVars, sideVars, routeVars, backendVars, countVars, ask, steps, stopAt, outcome,
                 speakVars>>

\* lines 905-931 with the reply r and the preference s it yields
SeatingSet(r, s) ==
  /\ prefResp' = r
  /\ seatingPreferenceFromUser' = s
  /\ answers' = IF Truthy(s)
                  THEN [answers EXCEPT !["seatingPreference"] = s]
                  ELSE answers

\* line 904 resolves; lines 905-936
SeatReply ==
  /\ pc = "listenSeat"
  /\ \E r \in inputs.seatReplies : SeatingSet(r, SeatingFromReply(rec, r))
  /\ pc' = "speakPrompt"
  /\ steps' = Append(steps, flow[i])
  /\ Mark({"mainPrompt"})
  /\ UNCHANGED <<i, payload, transcript, weatherResp, rec, submitVars,
                 flagVars, envVars, sideVars, routeVars, backendVars, countVars, ask, stopAt,
                 outcome, speakVars>>

\* line 936 resolves; line 937 starts the capture
PromptDone ==
  /\ pc = "speakPrompt"
  /\ pc' = "listenField"
  /\ ask' = [key |-> flow[i], captures |-> 1, reprompts |-> 0, first |-> Null]
  /\ Mark({"capture"})
  /\ UNCHANGED <<i, payload, dialogVars, seatVars, submitVars, flagVars,
                 envVars, sideVars, routeVars, backendVars, countVars, steps, stopAt, outcome,
                 speakVars>>

\* a loop that records an empty first capture without asking again
RecordWithoutReprompt(ans, seatU, t, a) ==
  LET key == flow[i]
      ans2 == IF Truthy(ans[key]) THEN ans ELSE [ans EXCEPT ![key] = t]
  IN /\ seatingPreferenceFromUser' = seatU
     /\ transcript' = t
     /\ answers' = ans2
     /\ ask' = a
     /\ Resume(Continue(i + 1, ans2, seatU))

\* lines 964-974 with the answers, the seating and the transcript that lines
\* 939-962 left: reprompt once, or record and go to the next iteration
RecordOrReprompt(ans, seatU, t, a) ==
  LET key == flow[i]
      ans2 == IF Truthy(ans[key]) THEN ans ELSE [ans EXCEPT ![key] = t]
  IN /\ seatingPreferenceFromUser' = seatU
     /\ transcript' = t
     /\ IF ~Truthy(ans[key]) /\ t = <<>>
          THEN /\ answers' = ans
               /\ ask' = [a EXCEPT !.reprompts = @ + 1]
               /\ pc' = "speakReprompt"
               /\ Mark({"reprompt"})
               /\ UNCHANGED <<i, payload, steps>>
          ELSE /\ answers' = ans2
               /\ ask' = a
               /\ Resume(Continue(i + 1, ans2, seatU))

\* line 937 resolves; lines 939-946
FieldCaptured ==
  /\ pc = "listenField"
  /\ \E t \in inputs.transcripts[flow[i]] :
       LET a == [ask EXCEPT !.first = t]
       IN IF shouldCallNLP(t)
            THEN /\ transcript' = t
                 /\ ask' = a
                 /\ pc' = "callNLP"
                 /\ Mark({"nlp"})
                 /\ UNCHANGED <<i, payload, answers, seatingPreferenceFromUser,
                                steps>>
            ELSE RecordOrReprompt(answers, seatingPreferenceFromUser, t, a)
  /\ UNCHANGED <<seatVars, submitVars, flagVars, envVars, sideVars, routeVars, backendVars,
                 countVars, stopAt, outcome, speakVars>>

\* lines 957-974 with the answers and the seating after the merge
Merged(ans, seatU) ==
  RecordOrReprompt(ans, seatU,
                   IF Truthy(ans[flow[i]]) THEN ans[flow[i]] ELSE transcript,
                   ask)

\* the responses the extractor gives in a run
NlpResponses ==
  IF "nlpResponses" \in DOMAIN inputs THEN inputs.nlpResponses
  ELSE { ResponseOf(x) : x \in inputs.nlp }

\* line 946 resolves; lines 947-974
NlpReturned ==
  /\ pc = "callNLP"
  /\ \E resp \in NlpResponses :
      LET intent == callNLP(resp)
      IN
       /\ intents' = Append(intents, [key |-> flow[i], intent |-> intent,
                                      response |-> resp])
       /\ IF intent.present
            THEN Merged(MergeIntent(answers, intent),
                        MergeSeating(seatingPreferenceFromUser, intent))
            ELSE RecordOrReprompt(answers, seatingPreferenceFromUser,
                                  transcript, ask)
  /\ UNCHANGED <<seatVars, submitVars, flagVars, envVars, sideVars, routeVars,
                 backendVars, posts, statuses, slotQueries, stopAt, outcome,
                 speakVars>>

\* line 968 resolves; line 969 starts the second capture
RepromptDone ==
  /\ pc = "speakReprompt"
  /\ pc' = "listenReprompt"
  /\ ask' = [ask EXCEPT !.captures = @ + 1]
  /\ Mark({"capture"})
  /\ UNCHANGED <<i, payload, dialogVars, seatVars, submitVars, flagVars,
                 envVars, sideVars, routeVars, backendVars, countVars, steps, stopAt, outcome,
                 speakVars>>

\* line 969 resolves; lines 971-974
RepromptCaptured ==
  /\ pc = "listenReprompt"
  /\ \E t \in inputs.transcripts[flow[i]] :
       LET ans2 == [answers EXCEPT ![flow[i]] = t]
       IN /\ transcript' = t
          /\ answers' = ans2
          /\ Resume(Continue(i + 1, ans2, seatingPreferenceFromUser))
  /\ UNCHANGED <<seatingPreferenceFromUser, seatVars, submitVars, flagVars,
                 envVars, sideVars, routeVars, backendVars, countVars, ask, stopAt, outcome,
                 speakVars>>

\* line 979 resolves; lines 980-981 and the finally of App.jsx
StopNoticeDone ==
  /\ pc = "speakStop"
  /\ pc' = "done"
  /\ outcome' = "stopped"
  /\ running' = FALSE
  /\ listening' = FALSE
  /\ UNCHANGED <<i, payload, dialogVars, seatVars, submitVars, stopRequested,
                 envVars, sideVars, routeVars, backendVars, countVars, ask, steps, stopAt,
                 afterStop, speakVars>>

\* line 1022 resolves; speakThenListen speaks its prompt (line 518)
ConfirmTextDone ==
  /\ pc = "speakConfirm"
  /\ pc' = "speakPlease"
  /\ Mark({"confirmPrompt"})
  /\ UNCHANGED <<i, payload, dialogVars, seatVars, submitVars, flagVars,
                 envVars, sideVars, routeVars, backendVars, countVars, ask, steps, stopAt, outcome,
                 speakVars>>

\* line 518 resolves; the 220 ms pause of line 519
PleaseDone ==
  /\ pc = "speakPlease"
  /\ pc' = "delay"
  /\ UNCHANGED <<i, payload, dialogVars, seatVars, submitVars, flagVars,
                 envVars, sideVars, routeVars, backendVars, countVars, ask, steps, stopAt,
                 afterStop, outcome, speakVars>>

\* line 519 resolves; line 520 starts the capture
DelayDone ==
  /\ pc = "delay"
  /\ pc' = "listenConfirm"
  /\ Mark({"capture"})
  /\ UNCHANGED <<i, payload, dialogVars, seatVars, submitVars, flagVars,
                 envVars, sideVars, routeVars, backendVars, countVars, ask, steps, stopAt, outcome,
                 speakVars>>

\* line 1024 resolves; lines 1025-1038
ConfirmReply ==
  /\ pc = "listenConfirm"
  /\ \E r \in inputs.confirmReplies :
       /\ confirmResp' = r
       /\ IF confirmedFlag(r)
            THEN pc' = "speakSaving" /\ UNCHANGED outcome
            ELSE pc' = "speakFinal" /\ outcome' = "cancelled"
  /\ UNCHANGED <<i, payload, dialogVars, seatVars, alternatives, pickResp,
                 chosen, flagVars, envVars, sideVars, routeVars, backendVars, countVars, ask, steps, stopAt,
                 afterStop, speakVars>>

\* fetch(".../api/bookings", POST) is called with the payload
Submit(body, nextPc) ==
  /\ req' = [req EXCEPT ![0] = [pc |-> "sent", body |-> body, status |-> 0]]
  /\ posts' = Append(posts, body)
  /\ pc' = nextPc
  /\ Mark({"post"})

\* line 1038 resolves; lines 1041-1047 send the first request
SavingDone ==
  /\ pc = "speakSaving"
  /\ Submit(payload, "post1")
  /\ UNCHANGED <<i, payload, dialogVars, seatVars, submitVars, flagVars,
                 envVars, sideVars, routeVars, store, otherPosts, statuses, slotQueries, intents, ask, steps,
                 stopAt, outcome, speakVars>>

\* lines 1057-1070 and 1155-1159: what follows the first response
AfterFirstResponse(status) ==
  IF status = 201 THEN [pc |-> "speakFinal", outcome |-> "booked"]
  ELSE IF status = 409 THEN [pc |-> "fetchSlots", outcome |-> "none"]
  ELSE [pc |-> "speakFinal", outcome |-> "failed"]

\* a negotiator that queries the slots again when the retry conflicts
AfterRetryResponseAgain(status) ==
  IF status = 201 THEN [pc |-> "speakFinal", outcome |-> "booked"]
  ELSE IF status = 409 /\ Len(posts) < 3
    THEN [pc |-> "fetchSlots", outcome |-> "none"]
  ELSE [pc |-> "speakFinal", outcome |-> "retryFailed"]

\* lines 1113-1129: what follows the response to the retry
AfterRetryResponse(status) ==
  IF status = 201 THEN [pc |-> "speakFinal", outcome |-> "booked"]
  ELSE [pc |-> "speakFinal", outcome |-> "retryFailed"]

\* lines 1043-1048 or 1107-1112 resolve
PostResponse ==
  /\ pc \in {"post1", "post2"}
  /\ req[0].pc = "responded"
  /\ LET next == IF pc = "post1" THEN AfterFirstResponse(req[0].status)
                 ELSE AfterRetryResponse(req[0].status)
     IN /\ pc' = next.pc
        /\ outcome' = next.outcome
        /\ IF next.pc = "fetchSlots"
             THEN slotQueries' = slotQueries + 1 /\ Mark({"slots"})
             ELSE UNCHANGED <<slotQueries, afterStop>>
  /\ req' = [req EXCEPT ![0].pc = "read"]
  /\ statuses' = Append(statuses, req[0].status)
  /\ UNCHANGED <<i, payload, dialogVars, seatVars, submitVars, flagVars,
                 envVars, sideVars, routeVars, store, otherPosts, posts, intents, ask, steps, stopAt,
                 speakVars>>

\* lines 1049-1055 and 1130-1136: fetch rejects; the request is lost on its
\* way, or it is the response that is lost and the handler runs on
PostNetworkError ==
  /\ pc \in {"post1", "post2"}
  /\ req' = [req EXCEPT ![0].pc = IF @ = "sent" THEN "lost" ELSE @]
  /\ pc' = "speakFinal"
  /\ outcome' = "networkError"
  /\ UNCHANGED <<i, payload, dialogVars, seatVars, submitVars, flagVars,
                 envVars, sideVars, routeVars, store, otherPosts, countVars, ask, steps, stopAt,
                 afterStop, speakVars>>

\* Array.prototype.slice(0, 3)
Slice3(s) == SubSeq(s, 1, IF Len(s) < 3 THEN Len(s) ELSE 3)

\* an offer of up to four slots
AlternativesUpToFour(available, refused) ==
  SubSeq(RejectSeqBy(available, {refused}), 1,
         IF Len(RejectSeqBy(available, {refused})) < 4
           THEN Len(RejectSeqBy(available, {refused})) ELSE 4)

\* line 1072: up to three available slots other than the refused time
Alternatives(available, refused) ==
  Slice3(RejectSeqBy(available, {refused}))

\* lines 1071-1088 and 1137-1145 with the available slots of the response
\* and the alternatives of line 1072
Offer(available, alts) ==
  IF available = <<>>
    THEN /\ pc' = "speakFinal"
         /\ outcome' = "noSlots"
         /\ UNCHANGED <<alternatives, afterStop>>
  ELSE IF alts = <<>>
    THEN /\ pc' = "speakFinal"
         /\ outcome' = "noAlternatives"
         /\ UNCHANGED <<alternatives, afterStop>>
  ELSE /\ pc' = "speakOffer"
       /\ alternatives' = alts
       /\ Mark({"offerPrompt"})
       /\ UNCHANGED outcome

\* lines 1071-1072 with the response body
OfferFrom(slotsData) ==
  Offer(slotsData.available,
        Alternatives(slotsData.available, payload.bookingTime))

\* line 1070 resolves with the body of GET /slots; lines 1071-1088, 1137-1145
SlotsFetched ==
  /\ pc = "fetchSlots"
  /\ slotsResp' = SlotsAnswer(store, payload.bookingDate, defaultOpen,
                              defaultClose, defaultDuration)
  /\ OfferFrom(SlotsResponse(store, payload.bookingDate, defaultOpen,
                             defaultClose, defaultDuration))
  /\ UNCHANGED <<i, payload, dialogVars, seatVars, confirmResp, pickResp,
                 chosen, flagVars, envVars, sideVars, wx, backendVars, countVars, ask,
                 steps, stopAt, speakVars>>

\* line 1070 resolves with null (lines 779-783)
SlotsFailed ==
  /\ pc = "fetchSlots"
  /\ pc' = "speakFinal"
  /\ outcome' = "noSlots"
  /\ UNCHANGED <<i, payload, dialogVars, seatVars, submitVars, flagVars,
                 envVars, sideVars, routeVars, backendVars, countVars, ask, steps, stopAt,
                 afterStop, speakVars>>

\* line 1088 resolves; askUserToPickSlot speaks its list (line 808)
OfferDone ==
  /\ pc = "speakOffer"
  /\ pc' = "speakPick"
  /\ Mark({"offerPrompt"})
  /\ UNCHANGED <<i, payload, dialogVars, seatVars, submitVars, flagVars,
                 envVars, sideVars, routeVars, backendVars, countVars, ask, steps, stopAt, outcome,
                 speakVars>>

\* line 808 resolves; line 809 starts the capture
PickPromptDone ==
  /\ pc = "speakPick"
  /\ pc' = "listenPick"
  /\ Mark({"capture"})
  /\ UNCHANGED <<i, payload, dialogVars, seatVars, submitVars, flagVars,
                 envVars, sideVars, routeVars, backendVars, countVars, ask, steps, stopAt, outcome,
                 speakVars>>

\* lines 1091-1104 with the slot c that askUserToPickSlot returned
Chosen(c) ==
  /\ chosen' = c
  /\ IF c = Null
       THEN /\ pc' = "speakFinal"
            /\ outcome' = "noChoice"
            /\ UNCHANGED payload
       ELSE /\ pc' = "speakTrying"
            /\ payload' = [payload EXCEPT !.bookingTime = c]
            /\ UNCHANGED outcome

\* line 809 resolves; lines 810-833 and 1091-1104
PickReply ==
  /\ pc = "listenPick"
  /\ \E r \in inputs.pickReplies :
       /\ pickResp' = r
       /\ Chosen(PickSlot(alternatives, r))
  /\ UNCHANGED <<i, dialogVars, seatVars, confirmResp, alternatives, flagVars,
                 envVars, sideVars, routeVars, backendVars, countVars, ask, steps, stopAt,
                 afterStop, speakVars>>

\* line 1104 resolves; lines 1107-1111 send the retry
TryingDone ==
  /\ pc = "speakTrying"
  /\ Submit(payload, "post2")
  /\ UNCHANGED <<i, payload, dialogVars, seatVars, submitVars, flagVars,
                 envVars, sideVars, routeVars, store, otherPosts, statuses, slotQueries, intents, ask, steps,
                 stopAt, outcome, speakVars>>

\* an end of the session that leaves running as it is
FinalMessageKeepsRunning ==
  /\ pc = "speakFinal"
  /\ pc' = "done"
  /\ listening' = FALSE
  /\ UNCHANGED <<i, payload, dialogVars, seatVars, submitVars, running,
                 stopRequested, envVars, sideVars, routeVars, backendVars,
                 countVars, ask, steps, stopAt, afterStop, outcome, speakVars>>

\* the last message of the session was spoken: running = false, return, and
\* the finally of App.jsx
FinalMessageDone ==
  /\ pc = "speakFinal"
  /\ pc' = "done"
  /\ running' = FALSE
  /\ listening' = FALSE
  /\ UNCHANGED <<i, payload, dialogVars, seatVars, submitVars, stopRequested,
                 envVars, sideVars, routeVars, backendVars, countVars, ask, steps, stopAt,
                 afterStop, outcome, speakVars>>

\* the awaits that are captures, and those that are network calls
CapturePcs == {"listenSeat", "listenField", "listenReprompt", "listenConfirm",
               "listenPick"}

FetchPcs == {"fetchWeather", "callNLP", "post1", "post2", "fetchSlots"}

\* App.jsx handleStopConversation (the button stops while listening is
\* true) and stopConversation, line 726
StopConversation ==
  /\ listening
  /\ pc \notin {"idle", "done", "speakUnsupported"}
  /\ stopRequested' = TRUE
  /\ running' = FALSE
  /\ listening' = FALSE
  /\ stopAt' = IF pc \in CapturePcs THEN "capture"
               ELSE IF pc \in FetchPcs THEN "fetch"
               ELSE "speak"
  /\ UNCHANGED <<pc, i, payload, dialogVars, seatVars, submitVars, envVars, sideVars, routeVars,
                 backendVars, countVars, ask, steps, afterStop, outcome,
                 speakVars>>

\* App.jsx handleStartConversation and voice.js lines 848-849: the user
\* starts a conversation while the one that was stopped is still suspended;
\* the flags both conversations read are reset
StartSecond ==
  /\ speechSupported
  /\ ~listening
  /\ ~second
  /\ stopAt # "none"
  /\ pc \notin {"idle", "done"}
  /\ second' = TRUE
  /\ listening' = TRUE
  /\ stopRequested' = FALSE
  /\ running' = TRUE
  /\ UNCHANGED <<pc, i, payload, dialogVars, seatVars, submitVars, envVars,
                 contactMode, notif, attempts, calls, deletes, lo, parsed,
                 routeVars,
                 backendVars, countVars, ask, steps, stopAt, afterStop,
                 outcome, speakVars>>

(***************************************************************************)
(* listenOnce from inside (voice.js, lines 482-515): the recognizer's      *)
(* events and the timer race to resolve the promise                        *)
(***************************************************************************)
\* everything but the state of the call of listenOnce
notListen ==
  <<pc, i, payload, dialogVars, seatVars, submitVars, flagVars, envVars,
    contactMode, second, notif, attempts, calls, deletes, parsed, routeVars,
    backendVars, countVars, ask, steps, stopAt, afterStop, outcome,
    speakVars>>

\* what the recognizer can hand to onresult: a transcript, or no result
Heard == inputs.transcripts["customerName"] \cup {Null}

\* a finish that does not latch
finishWithoutLatch(l, text) ==
  [l EXCEPT !.handlers = FALSE, !.resolvedWith = Append(@, text)]

\* lines 495-501: finish, with cleanup (lines 492-494)
finish(l, text) ==
  IF l.finished THEN l
  ELSE [l EXCEPT !.finished = TRUE, !.handlers = FALSE,
                 !.resolvedWith = Append(@, text)]

\* line 506: t ? t.trim() : ""
HeardText(t) == IF Truthy(t) THEN Trim(t) ELSE <<>>

Event(kind, text) == [kind |-> kind, text |-> text]

Delivered(kind) == \E k \in 1..Len(lo.events) : lo.events[k].kind = kind

\* lines 482-513: listenOnce is called; without recognition support it
\* resolves at once (line 484); rec.start() returns or throws (line 513)
ListenCalled ==
  /\ lo.pc = "idle"
  /\ IF ~speechSupported
       THEN lo' = [lo EXCEPT !.pc = "unsupported", !.resolvedWith = <<<<>>>>]
       ELSE \E started \in BOOLEAN :
              lo' = IF started
                      THEN [lo EXCEPT !.pc = "listening", !.handlers = TRUE,
                                      !.timer = "armed"]
                      ELSE finish([lo EXCEPT !.pc = "startFailed",
                                             !.handlers = TRUE,
                                             !.timer = "cleared"], <<>>)
  /\ UNCHANGED notListen

\* lines 503-508: the recognizer delivers its result
ResultEvent ==
  /\ lo.pc = "listening"
  /\ ~Delivered("result")
  /\ ~Delivered("end")
  /\ \E t \in Heard :
       LET l == [lo EXCEPT !.events = Append(@, Event("result", t))]
       IN lo' = IF lo.handlers THEN finish(l, HeardText(t)) ELSE l
  /\ UNCHANGED notListen

\* line 509: the recognizer reports an error
ErrorEvent ==
  /\ lo.pc = "listening"
  /\ ~Delivered("error")
  /\ ~Delivered("end")
  /\ LET l == [lo EXCEPT !.events = Append(@, Event("error", <<>>))]
     IN lo' = IF lo.handlers THEN finish(l, <<>>) ELSE l
  /\ UNCHANGED notListen

\* line 510: the recognizer ends
EndEvent ==
  /\ lo.pc = "listening"
  /\ ~Delivered("end")
  /\ LET l == [lo EXCEPT !.events = Append(@, Event("end", <<>>))]
     IN lo' = IF lo.handlers /\ ~lo.finished THEN finish(l, <<>>) ELSE l
  /\ UNCHANGED notListen

\* line 512: timeoutMs have passed; the timer is cleared only when
\* rec.start() threw
TimeoutFires ==
  /\ lo.timer = "armed"
  /\ LET l == [lo EXCEPT !.timer = "fired",
                         !.events = Append(@, Event("timeout", <<>>))]
     IN lo' = IF ~lo.finished THEN finish(l, <<>>) ELSE l
  /\ UNCHANGED notListen

(***************************************************************************)
(* The parsing helpers called on their own (voice.js, lines 530-722)       *)
(***************************************************************************)
\* everything but the record of the call
notParsed ==
  <<pc, i, payload, dialogVars, seatVars, submitVars, flagVars, envVars,
    contactMode, second, notif, attempts, calls, deletes, lo, routeVars,
    backendVars, countVars, ask, steps, stopAt, afterStop, outcome,
    speakVars>>

\* the word of engSmall with value v
WordOf(v) == (CHOOSE e \in engSmall : e.value = v).word

\* the English phrase of n in 0..100: a single word, a tens word and a ones
\* word, "one hundred"
EnglishPhrase(n) ==
  IF n = 100 THEN WordOf(1) \o <<" ">> \o WordOf(100)
  ELSE IF n <= 20 \/ n % 10 = 0 THEN WordOf(n)
  ELSE WordOf((n \div 10) * 10) \o <<" ">> \o WordOf(n % 10)

tGuestsWord ==
  <<" ", "g", "u", "e", "s", "t", "s">>

\* the texts parseNumberText is called with
NumberTexts ==
  { EnglishPhrase(n) : n \in 0..100 }
    \cup { EnglishPhrase(n) \o tGuestsWord : n \in 0..100 }
    \cup { <<>>, Null, WordOf(100), tForThree, tLots }

\* parseNumberText is called (lines 530-594)
ParseNumber ==
  /\ parsed.fn = "none"
  /\ \E t \in NumberTexts :
       parsed' = [fn |-> "number", text |-> t, today |-> <<>>,
                  result |-> parseNumberText(t), value |-> noGuests(t)]
  /\ UNCHANGED notParsed

\* the ways an hour is followed by am or pm
timeSuffixes ==
  { <<>>, <<"a", "m">>, <<"p", "m">>, <<" ", "a", "m">>, <<" ", "p", "m">>,
    <<" ", "P", "M">> }

\* the minutes that are said
saidMinutes == {0, 5, 30, 45}

\* an hour with minutes: H:MM or H.MM, with or without am/pm
TimeText(h, sep, m, sfx) == NumText(h) \o <<sep>> \o Pad2(m) \o sfx

\* a bare hour, with or without am/pm
HourText(h, sfx) == NumText(h) \o sfx

\* the texts parseTimeText is called with
TimeTexts ==
  { TimeText(h, sep, m, sfx) :
      h \in 0..23, sep \in {":", "."}, m \in saidMinutes,
      sfx \in timeSuffixes }
    \cup { HourText(h, sfx) : h \in 0..23, sfx \in timeSuffixes }
    \cup { <<>>, tLots, tNo }

\* parseTimeText is called, and its result is used as line 987 uses it
ParseTime ==
  /\ parsed.fn = "none"
  /\ \E t \in TimeTexts :
       parsed' = [fn |-> "time", text |-> t, today |-> <<>>,
                  result |-> parseTimeText(t),
                  value |-> OrElse(parseTimeText(t), tNineteen)]
  /\ UNCHANGED notParsed

\* the moments new Date() is drawn from: a day in mid-month, the last day of
\* a 30-day month, of the year and of a February, each at midnight and at noon
Clocks ==
  { <<d[1], d[2], d[3], ms>> :
      d \in {<<2024, 4, 10>>, <<2024, 3, 30>>, <<2024, 11, 31>>, <<2023, 1, 28>>},
      ms \in {0, Noon} }
tTh == <<"t", "h">>
tOnThe == <<"o", "n", " ", "t", "h", "e", " ">>
DayText(d) == NumText(d)
DateTexts ==
  { DayText(d) : d \in 1..31 } \cup { DayText(d) \o tTh : d \in 1..31 }
    \cup { tOnThe \o DayText(d) \o tTh : d \in 1..31 }
    \cup { <<>>, tLots, tToday, tTomorrow }

\* the normalisation of the date answer: lines 985-986 of voice.js
ParseDate ==
  /\ parsed.fn = "none"
  /\ \E t \in DateTexts, now \in Clocks :
       parsed' = [fn |-> "date", text |-> t, today |-> now,
                  result |-> parseDateText(t, now),
                  value |-> formatDateYMD(OrElse(parseDateText(t, now), now))]
  /\ UNCHANGED notParsed

(***************************************************************************)
(* Backend: POST /api/bookings, in-memory store (routes/bookings.js)       *)
(***************************************************************************)
\* line 196: a required field is missing
MissingRequired(b) ==
  \/ ~Truthy(b.bookingId)
  \/ ~Truthy(b.customerName)
  \/ b.numberOfGuests = 0
  \/ ~Truthy(b.bookingDate)
  \/ ~Truthy(b.bookingTime)

\* a conflict check that compares the date only
inMemConflictOnDate(bookings, b) ==
  \E k \in 1..Len(bookings) : bookings[k].bookingDate = b.bookingDate

\* line 223: inMemConflict
inMemConflict(bookings, b) ==
  \E k \in 1..Len(bookings) :
    /\ bookings[k].bookingDate = b.bookingDate
    /\ bookings[k].bookingTime = b.bookingTime

\* a bookingId check that never finds the identifier
IdNeverExists(bookings, b) == FALSE

\* line 278: the bookingId is already stored
IdExists(bookings, b) ==
  \E k \in 1..Len(bookings) : bookings[k].bookingId = b.bookingId

\* lines 241-246: finalSeatingPreference
finalSeatingPreference(b, weatherSeating) ==
  LET clientSeating ==
        IF Truthy(b.seatingPreference) /\ Trim(b.seatingPreference) # <<>>
          THEN Lower(Trim(b.seatingPreference)) ELSE Null
  IN IF clientSeating # Null THEN clientSeating
     ELSE IF Truthy(weatherSeating) THEN Lower(Trim(weatherSeating))
     ELSE Null

\* lines 282-294: the stored record
BookingRecord(b, weatherSeating) ==
  LET f == finalSeatingPreference(b, weatherSeating)
  IN [bookingId |-> b.bookingId, customerName |-> b.customerName,
      numberOfGuests |-> b.numberOfGuests,
      bookingDate |-> b.bookingDate, bookingTime |-> b.bookingTime,
      seatingPreference |-> IF Truthy(f) THEN f ELSE tUnknown,
      status |-> "confirmed"]

\* the handler runs from the arrival of the request to its first await
\* (lines 175-238): validation, conflict check, call of fetchWeatherForDate
PostReceived(c) ==
  /\ req[c].pc = "sent"
  /\ req' = [req EXCEPT ![c] =
       IF MissingRequired(req[c].body)
         THEN [@ EXCEPT !.pc = "responded", !.status = 400]
       ELSE IF inMemConflict(store, req[c].body)
         THEN [@ EXCEPT !.pc = "responded", !.status = 409]
       ELSE [@ EXCEPT !.pc = "weather"]]
  /\ UNCHANGED <<pc, i, payload, dialogVars, seatVars, submitVars, flagVars,
                 envVars, sideVars, routeVars, store, otherPosts, countVars, ask, steps, stopAt,
                 afterStop, outcome, speakVars>>

\* await fetchWeatherForDate resolves (lines 238-300): the bookingId check
\* and the insert; a failed weather lookup counts as indoor (line 57)
PostWeatherDone(c) ==
  /\ req[c].pc = "weather"
  /\ \E weatherSeating \in {tIndoor, tOutdoor} :
       IF IdExists(store, req[c].body)
         THEN /\ req' = [req EXCEPT ![c].pc = "responded", ![c].status = 400]
              /\ UNCHANGED store
         ELSE /\ store' = Append(store, BookingRecord(req[c].body, weatherSeating))
              /\ req' = [req EXCEPT ![c].pc = "responded", ![c].status = 201]
  /\ UNCHANGED <<pc, i, payload, dialogVars, seatVars, submitVars, flagVars,
                 envVars, sideVars, routeVars, otherPosts, countVars, ask, steps, stopAt,
                 afterStop, outcome, speakVars>>

\* lines 302-305: the handler throws before the booking is stored (a
\* rejected call of the database layer, a failure while the response of the
\* weather lookup is read) and the request is answered 500
PostServerError(c) ==
  /\ req[c].pc \in {"sent", "weather"}
  /\ req' = [req EXCEPT ![c].pc = "responded", ![c].status = 500]
  /\ UNCHANGED <<pc, i, payload, dialogVars, seatVars, submitVars, flagVars,
                 envVars, sideVars, routeVars, store, otherPosts, countVars, ask, steps,
                 stopAt, afterStop, outcome, speakVars>>

\* another client sends a booking request
OtherPost ==
  /\ otherPosts < MaxOtherPosts
  /\ \E b \in inputs.otherBodies :
       req' = [req EXCEPT ![otherPosts + 1] =
                 [pc |-> "sent",
                  body |-> [b EXCEPT !.bookingId = @ \o NumText(otherPosts + 1)],
                  status |-> 0]]
  /\ otherPosts' = otherPosts + 1
  /\ UNCHANGED <<pc, i, payload, dialogVars, seatVars, submitVars, flagVars,
                 envVars, sideVars, routeVars, store, countVars, ask, steps, stopAt, afterStop,
                 outcome, speakVars>>

(***************************************************************************)
(* Backend: create and delete requests sent straight to the bookings route *)
(* (routes/bookings.js, lines 175-325, in-memory store)                    *)
(***************************************************************************)
\* Array.prototype.splice(idx): everything from idx on is removed
SpliceToEnd(bookings, idx) == SubSeq(bookings, 1, idx - 1)

\* Array.prototype.splice(idx, 1)
Splice(bookings, idx) ==
  SubSeq(bookings, 1, idx - 1) \o SubSeq(bookings, idx + 1, Len(bookings))

\* the bookingIds a client can name: of the requests and of the seeds
KnownIds ==
  { b.bookingId : b \in inputs.otherBodies }
    \cup UNION { { st[k].bookingId : k \in 1..Len(st) } : st \in inputs.stores }

\* a client sends a booking request with the bookingId it chose; in this
\* specification no conversation runs and every client slot carries requests
RawPost ==
  /\ calls < MaxCalls
  /\ \E c \in Clients, b \in inputs.otherBodies :
       /\ req[c].pc \in {"none", "responded"}
       /\ req' = [req EXCEPT ![c] = [pc |-> "sent", body |-> b, status |-> 0]]
  /\ calls' = calls + 1
  /\ UNCHANGED <<pc, i, payload, dialogVars, seatVars, submitVars, flagVars,
                 envVars, contactMode, second, notif, attempts, deletes, lo, parsed,
                 routeVars, store, otherPosts, countVars, ask, steps, stopAt,
                 afterStop, outcome, speakVars>>

\* lines 308-325: DELETE /api/bookings/:id, findIndex and splice
DeleteBooking ==
  /\ calls < MaxCalls
  /\ \E id \in KnownIds :
       LET found == {k \in 1..Len(store) : store[k].bookingId = id}
       IN IF found = {}
            THEN /\ deletes' = Append(deletes, [id |-> id, status |-> 404])
                 /\ UNCHANGED store
            ELSE /\ store' = Splice(store, FirstPos(found))
                 /\ deletes' = Append(deletes, [id |-> id, status |-> 200])
  /\ calls' = calls + 1
  /\ UNCHANGED <<pc, i, payload, dialogVars, seatVars, submitVars, flagVars,
                 envVars, contactMode, second, notif, attempts, lo, parsed,
                 routeVars, req, otherPosts, countVars, ask, steps, stopAt,
                 afterStop, outcome, speakVars>>

\* no request is being handled
InTurn == \A c \in Clients : req[c].pc \in {"none", "responded"}

\* requests that arrive when the one before has been answered
PostInTurn == InTurn /\ RawPost
DeleteInTurn == InTurn /\ DeleteBooking

(***************************************************************************)
(* Backend: POST /api/bookings with notifications (the bookings route in   *)
(* models/booking.js, lines 535-709)                                       *)
(***************************************************************************)
\* what sendSms and sendEmail can come to: a provider accepted the message,
\* every configured provider failed, no provider is configured (lines
\* 319-320 and 428-429), or the awaited call is rejected
notifyOutcomes == {"sent", "failed", "noProvider", "exception"}

\* a notification task that is started whatever the answer to the request
NotificationForAnyStatus(b, status) ==
  [NoNotification EXCEPT
     !.pc = IF Truthy(b.phone) THEN "sms"
            ELSE IF Truthy(b.email) THEN "email"
            ELSE "done",
     !.phone = b.phone,
     !.email = b.email]

\* lines 678-697: the task is created after the insert, on the path that
\* answers 201; it runs to its first await, the call of sendSms (line 684)
\* or, without a phone, of sendEmail (line 692)
NotificationFor(b, status) ==
  IF status # 201 THEN NoNotification
  ELSE [NoNotification EXCEPT
          !.pc = IF Truthy(b.phone) THEN "sms"
                 ELSE IF Truthy(b.email) THEN "email"
                 ELSE "done",
          !.phone = b.phone,
          !.email = b.email]

\* the record of a call of sendSms or sendEmail for the request of client c:
\* whether its booking is in the bookings, and the answer to the request
Attempt(c, kind, bookings, status) ==
  [client |-> c, kind |-> kind, status |-> status,
   stored |-> \E k \in 1..Len(bookings) :
                /\ bookings[k].bookingId = req[c].body.bookingId
                /\ bookings[k].status = "confirmed"]

\* the calls a task makes when it starts
FirstAttempts(c, task, bookings, status) ==
  IF task.pc \in {"sms", "email"}
    THEN <<Attempt(c, task.pc, bookings, status)>>
    ELSE <<>>

\* lines 593-703: await fetchWeatherForDate resolves; the bookingId check, the
\* insert, the start of the notification task and the 201 answer
PostStoredNotifying(c) ==
  /\ req[c].pc = "weather"
  /\ \E weatherSeating \in {tIndoor, tOutdoor} :
       LET status == IF IdExists(store, req[c].body) THEN 400 ELSE 201
           bookings == IF status = 201
                         THEN Append(store, BookingRecord(req[c].body,
                                                          weatherSeating))
                         ELSE store
           task == NotificationFor(req[c].body, status)
       IN /\ store' = bookings
          /\ req' = [req EXCEPT ![c].pc = "responded", ![c].status = status]
          /\ notif' = [notif EXCEPT ![c] = task]
          /\ attempts' = attempts \o FirstAttempts(c, task, bookings, status)
  /\ UNCHANGED <<pc, i, payload, dialogVars, seatVars, submitVars, flagVars,
                 envVars, contactMode, second, calls, deletes, lo, parsed, routeVars, otherPosts,
                 countVars, ask, steps, stopAt, afterStop, outcome, speakVars>>

\* lines 683-686: await sendSms settles; sendEmail is called when the request
\* has an email; a rejection is caught at line 694 and ends the task
SmsSettled(c) ==
  /\ notif[c].pc = "sms"
  /\ \E o \in notifyOutcomes :
       LET next == IF o # "exception" /\ Truthy(notif[c].email)
                     THEN "email" ELSE "done"
       IN /\ notif' = [notif EXCEPT ![c].pc = next, ![c].sms = o]
          /\ attempts' =
               IF next = "email"
                 THEN Append(attempts,
                             Attempt(c, "email", store, req[c].status))
                 ELSE attempts
  /\ UNCHANGED <<pc, i, payload, dialogVars, seatVars, submitVars, flagVars,
                 envVars, contactMode, second, calls, deletes, lo, parsed, routeVars, backendVars,
                 countVars, ask, steps, stopAt, afterStop, outcome, speakVars>>

\* lines 692-696: await sendEmail settles and the task ends
EmailSettled(c) ==
  /\ notif[c].pc = "email"
  /\ \E o \in notifyOutcomes :
       notif' = [notif EXCEPT ![c].pc = "done", ![c].mail = o]
  /\ UNCHANGED <<pc, i, payload, dialogVars, seatVars, submitVars, flagVars,
                 envVars, contactMode, second, attempts, calls, deletes, lo, parsed,
                 routeVars,
                 backendVars, countVars, ask, steps, stopAt, afterStop, outcome,
                 speakVars>>

(***************************************************************************)
(* Backend: GET /api/weather (the weather route in models/booking.js)      *)
(***************************************************************************)
\* String.prototype.split('-')
RECURSIVE SplitDash(_)
SplitDash(t) ==
  IF \E p \in 1..Len(t) : t[p] = "-"
    THEN <<SubSeq(t, 1, FirstPos({p \in 1..Len(t) : t[p] = "-"}) - 1)>>
           \o SplitDash(SubSeq(t, FirstPos({p \in 1..Len(t) : t[p] = "-"}) + 1,
                               Len(t)))
    ELSE <<t>>

\* the days from 1970-01-01 to the day d of month m (1..12) of year y
DaysFromCivil(y, m, d) ==
  LET yy  == IF m <= 2 THEN y - 1 ELSE y
      era == yy \div 400
      yoe == yy - era * 400
      mp  == IF m > 2 THEN m - 3 ELSE m + 9
      doy == (153 * mp + 2) \div 5 + d - 1
      doe == yoe * 365 + yoe \div 4 - yoe \div 100 + doy
  IN era * 146097 + doe - 719468

\* Math.floor(Date.UTC(year, month - 1, day, 0, 0, 0) / 1000)
UtcSeconds(year, month, day) == DaysFromCivil(year, month, day) * 86400

\* the value of ymdToUtcSeconds when the text is not a date
NoSeconds == -1

\* lines 29-33 with the parsed parts
SecondsOfParts(parts) ==
  IF Len(parts) # 3 \/ \E k \in 1..Len(parts) : parts[k] = NaN
    THEN NoSeconds
    ELSE UtcSeconds(parts[1], parts[2], parts[3])

\* lines 28-34
ymdToUtcSeconds(ymd) ==
  SecondsOfParts([k \in 1..Len(SplitDash(ymd)) |-> ParseIntText(SplitDash(ymd)[k])])

\* an entry of the provider's daily forecast: dt in seconds, pop in
\* hundredths (0.3 is 30) or NoPop when the entry has none, and the text of
\* weather[0].main or Null
NoPop == -1

WeatherEntry(dt, pop, main) == [dt |-> dt, pop |-> pop, main |-> main]

\* no entry: the obj that is null, the forecast that is null
NoEntry == [dt |-> -1, pop |-> NoPop, main |-> Null]

\* the words of line 44
indoorWords ==
  { <<"r", "a", "i", "n">>,
    <<"t", "h", "u", "n", "d", "e", "r">>,
    <<"s", "n", "o", "w">>,
    <<"d", "r", "i", "z", "z", "l", "e">> }

\* lines 42-43: the lowered text of weather[0].main, '' when it is missing
weatherMainLower(obj) == Lower(IF Truthy(obj.main) THEN obj.main ELSE <<>>)

\* a rule whose threshold excludes a probability of exactly 0.3
decideSeatingAboveThreshold(obj) ==
  IF obj = NoEntry THEN tIndoor
  ELSE IF obj.pop # NoPop /\ obj.pop > 30 THEN tIndoor
  ELSE IF \E w \in indoorWords : Includes(weatherMainLower(obj), w) THEN tIndoor
  ELSE tOutdoor

\* lines 36-46
decideSeatingFromWeatherObj(obj) ==
  IF obj = NoEntry THEN tIndoor
  ELSE IF obj.pop # NoPop /\ obj.pop >= 30 THEN tIndoor
  ELSE IF \E w \in indoorWords : Includes(weatherMainLower(obj), w) THEN tIndoor
  ELSE tOutdoor

\* Math.abs
Abs(x) == IF x < 0 THEN 0 - x ELSE x

\* lines 100-104: the index of the first entry at the least distance from
\* the target (daily is not empty)
NearestIndex(daily, targetSeconds) ==
  CHOOSE k \in 1..Len(daily) :
    /\ \A j \in 1..Len(daily) :
         Abs(daily[k].dt - targetSeconds) <= Abs(daily[j].dt - targetSeconds)
    /\ \A j \in 1..(k - 1) :
         Abs(daily[j].dt - targetSeconds) > Abs(daily[k].dt - targetSeconds)

\* a window of four days
withinFourDays(diff) == diff <= 4 * 24 * 3600

\* line 106: the nearest entry is close enough to be used
withinForecastWindow(diff) == diff <= 3 * 24 * 3600

\* the note of the fallback answer (line 168)
fallbackNote ==
  "Used current-weather endpoint as fallback because forecast API was unavailable"

\* the body of an answer: the fixed part of weatherSummary, the
\* recommendation, the forecast entry returned and the note
WeatherBody(summary, seating, entry, note) ==
  [weatherSummary |-> summary, seatingRecommendation |-> seating,
   forecast |-> entry, note |-> note]

\* lines 79-97: the answer for an exact match
ExactBody(matched) ==
  WeatherBody("", decideSeatingFromWeatherObj(matched), matched, "")

\* lines 106-122: the answer from the nearest entry m
ApproximateBody(m) ==
  WeatherBody("Approximate forecast (closest available): ",
              decideSeatingFromWeatherObj(m), m, "")

\* lines 125-131: the date is outside the forecast window
OutsideBody ==
  WeatherBody("Forecast not available for that date (outside provider forecast window).",
              tIndoor, NoEntry, "")

\* lines 99-131 with the nearest entry
NearestBody(m, targetSeconds) ==
  IF withinForecastWindow(Abs(m.dt - targetSeconds))
    THEN ApproximateBody(m)
    ELSE OutsideBody

\* lines 76-131 with the indices of the entries of the target day
DailyBody(daily, targetSeconds, hits) ==
  IF hits # {} THEN ExactBody(daily[FirstPos(hits)])
  ELSE IF daily # <<>>
    THEN NearestBody(daily[NearestIndex(daily, targetSeconds)], targetSeconds)
  ELSE OutsideBody

\* lines 154-169: the answer from the current weather; a rain object counts
\* as a precipitation probability of 1
CurrentBody(cur) ==
  WeatherBody("Approximate (current) weather: ",
              decideSeatingFromWeatherObj(
                WeatherEntry(0, IF cur.rain THEN 100 ELSE 0, cur.main)),
              NoEntry, fallbackNote)

\* lines 48-61: the request arrives; the handler runs to its first await
WeatherRequested ==
  /\ wx.pc \in {"none", "responded"}
  /\ \E date \in inputs.weatherDates, key \in inputs.weatherKeys :
       wx' = IF date = <<>>
               THEN [NoWeatherRequest EXCEPT !.pc = "responded", !.status = 400]
             ELSE IF ymdToUtcSeconds(date) \in {NoSeconds, 0}
               THEN [NoWeatherRequest EXCEPT !.pc = "responded", !.date = date,
                                             !.status = 400]
             ELSE IF ~key
               THEN [NoWeatherRequest EXCEPT !.pc = "responded", !.date = date,
                                             !.status = 500]
             ELSE [NoWeatherRequest EXCEPT !.pc = "onecall", !.date = date,
                     !.targetSeconds = ymdToUtcSeconds(date)]
  /\ UNCHANGED <<pc, i, payload, dialogVars, seatVars, submitVars, flagVars,
                 envVars, sideVars, slotsResp, backendVars, countVars, ask, steps,
                 stopAt, afterStop, outcome, speakVars>>

\* line 73 resolves with a daily forecast; lines 74-131
OneCallReturned ==
  /\ wx.pc = "onecall"
  /\ \E daily \in inputs.onecall :
       wx' = [wx EXCEPT !.pc = "responded", !.status = 200, !.daily = daily,
                !.body = DailyBody(daily, wx.targetSeconds,
                                   {k \in 1..Len(daily) :
                                      daily[k].dt = wx.targetSeconds})]
  /\ UNCHANGED <<pc, i, payload, dialogVars, seatVars, submitVars, flagVars,
                 envVars, sideVars, slotsResp, backendVars, countVars, ask, steps,
                 stopAt, afterStop, outcome, speakVars>>

\* line 73 rejects, or resolves without a daily array (lines 132-140); line
\* 151 asks for the current weather
OneCallFailed ==
  /\ wx.pc = "onecall"
  /\ wx' = [wx EXCEPT !.pc = "current"]
  /\ UNCHANGED <<pc, i, payload, dialogVars, seatVars, submitVars, flagVars,
                 envVars, sideVars, slotsResp, backendVars, countVars, ask, steps,
                 stopAt, afterStop, outcome, speakVars>>

\* line 151 resolves; lines 152-169
CurrentReturned ==
  /\ wx.pc = "current"
  /\ \E cur \in inputs.current :
       wx' = [wx EXCEPT !.pc = "responded", !.status = 200,
                        !.body = CurrentBody(cur)]
  /\ UNCHANGED <<pc, i, payload, dialogVars, seatVars, submitVars, flagVars,
                 envVars, sideVars, slotsResp, backendVars, countVars, ask, steps,
                 stopAt, afterStop, outcome, speakVars>>

\* line 151 rejects; lines 170-176
CurrentFailed ==
  /\ wx.pc = "current"
  /\ \E status \in {502, 500} :
       wx' = [wx EXCEPT !.pc = "responded", !.status = status]
  /\ UNCHANGED <<pc, i, payload, dialogVars, seatVars, submitVars, flagVars,
                 envVars, sideVars, slotsResp, backendVars, countVars, ask, steps,
                 stopAt, afterStop, outcome, speakVars>>

(***************************************************************************)
(* Backend: GET /api/bookings/slots as a request of its own                *)
(***************************************************************************)
\* lines 89-147 with the in-memory store: the handler has no await
GetSlots ==
  /\ \E q \in inputs.slotsQueries :
       slotsResp' =
         IF q.date = <<>>
           THEN [NoSlotsResponse EXCEPT !.status = 400]
           ELSE SlotsAnswer(store, q.date, ParamOr(q.open, defaultOpen),
                            ParamOr(q.close, defaultClose), DurationOf(q))
  /\ UNCHANGED <<pc, i, payload, dialogVars, seatVars, submitVars, flagVars,
                 envVars, sideVars, wx, backendVars, countVars, ask, steps, stopAt,
                 afterStop, outcome, speakVars>>

\* queries with and without a window and a duration, on a store that other
\* clients fill through POST /api/bookings
SlotsInputs ==
  [stores |-> { <<>>,
                <<SeedBooking(TomorrowYMD, tNineteen)>>,
                <<SeedBooking(TomorrowYMD, tNineteen),
                  SeedBooking(Today, tEighteenThirty)>> },
   otherBodies |-> { OtherBody(TomorrowYMD, tEleven),
                     OtherBody(TomorrowYMD, tQuarterPastSeven) },
   slotsQueries |->
     { SlotsQuery(d, o, c, m) :
         d \in {<<>>, Today, TomorrowYMD},
         o \in {<<>>, tEighteen},
         c \in {<<>>, tEighteen, tNineteenThirty},
         m \in {<<>>, tFortyFive, tSixty} }]

InitSlots ==
  /\ SessionInit(SlotsInputs)
  /\ speechSupported = TRUE
  /\ SpeakIdle
  /\ voicesLoaded = TRUE

(***************************************************************************)
(* Backend: GET /api/bookings/slots, the loop of buildSlots step by step   *)
(* (routes/bookings.js, lines 89-147, in-memory store)                     *)
(***************************************************************************)
notSlots == <<pc, i, payload, dialogVars, seatVars, submitVars, flagVars,
              envVars, sideVars, wx, backendVars, countVars, ask, steps,
              stopAt, afterStop, outcome, speakVars>>

\* parseInt(p, 10) of a text that may start with a minus sign
parseIntSigned(p) ==
  LET t == TrimLeft(p)
  IN IF t # <<>> /\ t[1] = "-"
       THEN IF LeadingDigits(Tail(t)) = <<>> THEN NaN
            ELSE 0 - DigitsValue(LeadingDigits(Tail(t)))
     ELSE ParseIntText(p)

\* line 97 for a duration with a sign
SignedDurationOf(q) ==
  IF q.duration = <<>> THEN defaultDuration ELSE parseIntSigned(q.duration)

\* the handler inside the loop of lines 107-113: cur and end in minutes after
\* midnight of the day the Date objects are built on, slots the array so far
InLoop == "cur" \in DOMAIN slotsResp
LoopState(q, duration, cur, end, slots) ==
  [status |-> 0, exit |-> "none", date |-> q.date, open |-> q.open,
   close |-> q.close, duration |-> duration, cur |-> cur, end |-> end,
   slots |-> slots]

\* lines 89-106: the request arrives, the parameters get their defaults and
\* buildSlots is entered
SlotsRequested ==
  /\ slotsResp = NoSlotsResponse
  /\ \E q \in inputs.slotsQueries :
       slotsResp' =
         IF q.date = <<>>
           THEN [NoSlotsResponse EXCEPT !.status = 400]
           ELSE LoopState([q EXCEPT !.open = ParamOr(q.open, defaultOpen),
                                    !.close = ParamOr(q.close, defaultClose)],
                          SignedDurationOf(q),
                          MinutesOf(ParamOr(q.open, defaultOpen)),
                          MinutesOf(ParamOr(q.close, defaultClose)), <<>>)
  /\ UNCHANGED notSlots

\* lines 107-112: one turn of while (cur <= end)
LoopStep ==
  /\ InLoop
  /\ slotsResp.exit = "none"
  /\ slotsResp.cur <= slotsResp.end
  /\ Len(slotsResp.slots) < ArrayLimit
  /\ slotsResp' =
       [slotsResp EXCEPT
          !.slots = Append(@, TimeStr((slotsResp.cur \div 60) % 24,
                                      slotsResp.cur % 60)),
          !.cur = @ + slotsResp.duration]
  /\ UNCHANGED notSlots

\* lines 113-142: the loop ends and the response is built
LoopDone ==
  /\ InLoop
  /\ slotsResp.exit = "none"
  /\ slotsResp.cur > slotsResp.end
  /\ slotsResp' =
       [status |-> 200, date |-> slotsResp.date, open |-> slotsResp.open,
        close |-> slotsResp.close, duration |-> slotsResp.duration,
        body |-> SlotsBody(slotsResp.slots, TakenOn(store, slotsResp.date))]
  /\ UNCHANGED notSlots

\* slots.push on an array that cannot grow any more: the engine throws a
\* RangeError, which line 143 catches and answers 500, or it runs out of
\* heap and the process ends without an answer
LoopOverrun ==
  /\ InLoop
  /\ slotsResp.exit = "none"
  /\ slotsResp.cur <= slotsResp.end
  /\ Len(slotsResp.slots) = ArrayLimit
  /\ \/ slotsResp' = [NoSlotsResponse EXCEPT !.status = 500]
     \/ slotsResp' = [slotsResp EXCEPT !.exit = "aborted"]
  /\ UNCHANGED notSlots

\* queries whose duration is an integer of either sign, with and without a
\* window
tMinusThirty == <<"-", "3", "0">>
LoopInputs ==
  [stores |-> { <<>>,
                <<SeedBooking(TomorrowYMD, tNineteen)>>,
                <<SeedBooking(TomorrowYMD, tNineteen),
                  SeedBooking(Today, tEighteenThirty)>> },
   otherBodies |-> {},
   slotsQueries |->
     { SlotsQuery(d, o, c, m) :
         d \in {<<>>, TomorrowYMD},
         o \in {<<>>, tEighteen},
         c \in {<<>>, tNineteenThirty},
         m \in {<<>>, tFortyFive, tSixty, tZero, tMinusThirty} }]

InitLoop ==
  /\ SessionInit(LoopInputs)
  /\ speechSupported = TRUE
  /\ SpeakIdle
  /\ voicesLoaded = TRUE

\* midnight UTC of the day after Clock, in seconds
ForecastStart == UtcSeconds(2024, 5, 11)

\* an entry of the daily forecast, hours after ForecastStart
EntryAt(hours, pop, main) ==
  WeatherEntry(ForecastStart + 3600 * hours, pop, main)

ForecastEntries ==
  { EntryAt(0, 30, tClear),
    EntryAt(0, 10, tThunderstorm),
    EntryAt(0, 10, tClear),
    EntryAt(72, NoPop, tDrizzle),
    EntryAt(78, 29, tSnow),
    EntryAt(0 - 72, 0, tClouds),
    EntryAt(150, 100, Null) }

\* requests for the forecast days and after them, bad requests, and every
\* daily forecast of up to two of the entries
WeatherInputs ==
  [stores |-> { <<>> },
   weatherDates |-> { <<>>, tTomorrow, TomorrowYMD,
                      formatDateYMD(<<2024, 4, 14>>),
                      formatDateYMD(<<2024, 4, 17>>) },
   weatherKeys |-> BOOLEAN,
   onecall |-> {<<>>} \cup {<<e>> : e \in ForecastEntries}
                 \cup {<<e, f>> : e \in ForecastEntries, f \in ForecastEntries},
   current |-> { [rain |-> FALSE, main |-> tClear],
                 [rain |-> TRUE, main |-> tClouds],
                 [rain |-> FALSE, main |-> tDrizzle] }]

InitWeather ==
  /\ SessionInit(WeatherInputs)
  /\ speechSupported = TRUE
  /\ SpeakIdle
  /\ voicesLoaded = TRUE

(***************************************************************************)
(* speak() and listenOnce() from inside (voice.js lines 435-515), driven   *)
(* by a caller that speaks a prompt and then listens (lines 936-937)       *)
(***************************************************************************)
sessionVars ==
  <<pc, i, payload, dialogVars, seatVars, submitVars, flagVars, envVars, sideVars, routeVars,
    backendVars, countVars, ask, steps, stopAt, afterStop, outcome>>

\* lines 456-477, proceed() of call c: cancel() empties the synthesis queue,
\* which ends the utterances in it with an end or error event (lines
\* 469-470 resolve their promises); then the new utterance is queued
proceed(c) ==
  /\ resolved' = resolved \cup Range(playing)
  /\ playing' = <<c>>

\* line 936: speak(q.prompt) is called (lines 436-454)
SpeakCalled ==
  /\ callerPc = "ready"
  /\ call < MaxSpeakCalls
  /\ call' = call + 1
  /\ callerPc' = "awaitSpeak"
  /\ IF voicesLoaded
       THEN proceed(call + 1) /\ UNCHANGED <<listeners, timers>>
       ELSE /\ listeners' = listeners \cup {call + 1}
            /\ timers' = timers \cup {call + 1}
            /\ UNCHANGED <<playing, resolved>>
  /\ UNCHANGED <<voicesLoaded, micOn, playingAtCapture, sessionVars>>

\* the browser loads its voices and fires voiceschanged: onVoices of the
\* registered call runs (lines 441-445); its timer stays pending
VoicesChanged ==
  /\ ~voicesLoaded
  /\ voicesLoaded' = TRUE
  /\ listeners' = {}
  /\ IF listeners = {}
       THEN UNCHANGED <<playing, resolved>>
       ELSE \E c \in listeners : proceed(c)
  /\ UNCHANGED <<callerPc, call, timers, micOn, playingAtCapture, sessionVars>>

\* the 800 ms timer of call c fires (lines 447-451)
SpeakTimerFired ==
  /\ \E c \in timers :
       /\ timers' = timers \ {c}
       /\ listeners' = listeners \ {c}
       /\ proceed(c)
  /\ UNCHANGED <<callerPc, call, voicesLoaded, micOn, playingAtCapture,
                 sessionVars>>

\* the utterance being spoken ends or errors (lines 469-470)
UtteranceEnded ==
  /\ playing # <<>>
  /\ resolved' = resolved \cup {Head(playing)}
  /\ playing' = Tail(playing)
  /\ UNCHANGED <<callerPc, call, voicesLoaded, listeners, timers, micOn,
                 playingAtCapture, sessionVars>>

\* the promise of the current speak() is resolved and the caller goes on to
\* line 937: listenOnce starts the recognizer (line 513)
ListenBegins ==
  /\ callerPc = "awaitSpeak"
  /\ call \in resolved
  /\ callerPc' = "listening"
  /\ micOn' = TRUE
  /\ playingAtCapture' = playing
  /\ UNCHANGED <<call, voicesLoaded, listeners, timers, playing, resolved,
                 sessionVars>>

\* a result, an error, the end event or the timeout finishes the capture
\* (lines 495-512)
ListenEnds ==
  /\ callerPc = "listening"
  /\ callerPc' = "ready"
  /\ micOn' = FALSE
  /\ UNCHANGED <<call, voicesLoaded, listeners, timers, playing, resolved,
                 playingAtCapture, sessionVars>>

(***************************************************************************)
(* Specifications                                                          *)
(***************************************************************************)
\* one conversation with a talkative user
Next ==
  \/ StartConversation
  \/ UnsupportedDone
  \/ GreetDone
  \/ WeatherFetched
  \/ SuggestDone
  \/ SeatReply
  \/ PromptDone
  \/ FieldCaptured
  \/ NlpReturned
  \/ RepromptDone
  \/ RepromptCaptured
  \/ StopNoticeDone
  \/ ConfirmTextDone
  \/ PleaseDone
  \/ DelayDone
  \/ ConfirmReply
  \/ SavingDone
  \/ PostResponse
  \/ PostNetworkError
  \/ SlotsFetched
  \/ SlotsFailed
  \/ OfferDone
  \/ PickPromptDone
  \/ PickReply
  \/ TryingDone
  \/ FinalMessageDone
  \/ StopConversation
  \/ \E c \in Clients : PostReceived(c)
  \/ \E c \in Clients : PostWeatherDone(c)
  \/ \E c \in Clients : PostServerError(c)

Spec == Init /\ [][Next]_vars

\* one conversation while other clients book
NextNegotiation ==
  \/ StartConversation
  \/ UnsupportedDone
  \/ GreetDone
  \/ WeatherFetched
  \/ SuggestDone
  \/ SeatReply
  \/ PromptDone
  \/ FieldCaptured
  \/ NlpReturned
  \/ RepromptDone
  \/ RepromptCaptured
  \/ StopNoticeDone
  \/ ConfirmTextDone
  \/ PleaseDone
  \/ DelayDone
  \/ ConfirmReply
  \/ SavingDone
  \/ PostResponse
  \/ PostNetworkError
  \/ SlotsFetched
  \/ SlotsFailed
  \/ OfferDone
  \/ PickPromptDone
  \/ PickReply
  \/ TryingDone
  \/ FinalMessageDone
  \/ StopConversation
  \/ \E c \in Clients : PostReceived(c)
  \/ \E c \in Clients : PostWeatherDone(c)
  \/ \E c \in Clients : PostServerError(c)
  \/ OtherPost

SpecNegotiation == InitNegotiation /\ [][NextNegotiation]_vars

\* the steps of the session and of the backend in which a pending speak,
\* capture or network call completes (all but the second capture of a field)
Completes ==
  \/ StartConversation
  \/ UnsupportedDone
  \/ GreetDone
  \/ WeatherFetched
  \/ SuggestDone
  \/ SeatReply
  \/ PromptDone
  \/ FieldCaptured
  \/ NlpReturned
  \/ RepromptDone
  \/ StopNoticeDone
  \/ ConfirmTextDone
  \/ PleaseDone
  \/ DelayDone
  \/ ConfirmReply
  \/ SavingDone
  \/ PostResponse
  \/ PostNetworkError
  \/ SlotsFailed
  \/ OfferDone
  \/ PickPromptDone
  \/ PickReply
  \/ TryingDone
  \/ FinalMessageDone
  \/ \E c \in Clients : PostReceived(c)
  \/ \E c \in Clients : PostWeatherDone(c)
  \/ \E c \in Clients : PostServerError(c)

\* a conversation with stops by the user at any moment
NextLive ==
  \/ Completes
  \/ RepromptCaptured
  \/ SlotsFetched
  \/ StopConversation

\* every speak, capture and network call that is pending completes: weak
\* fairness of the steps of Completes, and the second capture of a field
\* (line 969), the one await they leave out, does not stay pending
SpecLive ==
  /\ InitNegotiation
  /\ [][NextLive]_vars
  /\ WF_vars(Completes)
  /\ []<>(pc # "listenReprompt")

\* the dialogue up to the first submission
NextDraft ==
  \/ StartConversation
  \/ UnsupportedDone
  \/ GreetDone
  \/ WeatherFetched
  \/ SuggestDone
  \/ SeatReply
  \/ PromptDone
  \/ FieldCaptured
  \/ NlpReturned
  \/ RepromptDone
  \/ RepromptCaptured
  \/ StopNoticeDone
  \/ ConfirmTextDone
  \/ PleaseDone
  \/ DelayDone
  \/ ConfirmReply
  \/ SavingDone
  \/ FinalMessageDone
  \/ StopConversation

SpecDraft == InitDraft /\ [][NextDraft]_vars

\* the same dialogue with the guests and the time named in many ways
SpecPayload == InitPayload /\ [][NextDraft]_vars

\* the dialogue when the user may start again after a stop
NextRestart ==
  \/ StartConversation
  \/ UnsupportedDone
  \/ GreetDone
  \/ WeatherFetched
  \/ SuggestDone
  \/ SeatReply
  \/ PromptDone
  \/ FieldCaptured
  \/ NlpReturned
  \/ RepromptDone
  \/ RepromptCaptured
  \/ StopNoticeDone
  \/ ConfirmTextDone
  \/ PleaseDone
  \/ DelayDone
  \/ ConfirmReply
  \/ SavingDone
  \/ FinalMessageDone
  \/ StopConversation
  \/ StartSecond

SpecRestart == InitScenario /\ [][NextRestart]_vars

\* one call of listenOnce; the timer fires unless it was cleared
NextListen ==
  \/ ListenCalled
  \/ ResultEvent
  \/ ErrorEvent
  \/ EndEvent
  \/ TimeoutFires

SpecListen == InitListen /\ [][NextListen]_vars /\ WF_vars(TimeoutFires)

\* calls of the parsing helpers
NextParse ==
  \/ ParseNumber
  \/ ParseTime
  \/ ParseDate

SpecParse == InitParse /\ [][NextParse]_vars

\* scenario A with every outcome of the extractor
SpecScenario == InitScenario /\ [][NextDraft]_vars

\* a conversation and another client against the route that notifies
NextNotify ==
  \/ StartConversation
  \/ UnsupportedDone
  \/ GreetDone
  \/ WeatherFetched
  \/ SuggestDone
  \/ SeatReply
  \/ PromptDone
  \/ FieldCaptured
  \/ NlpReturned
  \/ ConfirmTextDone
  \/ PleaseDone
  \/ DelayDone
  \/ ConfirmReply
  \/ SavingDone
  \/ PostResponse
  \/ FinalMessageDone
  \/ OtherPost
  \/ \E c \in Clients : PostReceived(c)
  \/ \E c \in Clients : PostStoredNotifying(c)
  \/ \E c \in Clients : PostServerError(c)
  \/ \E c \in Clients : SmsSettled(c)
  \/ \E c \in Clients : EmailSettled(c)

SpecNotify == InitNotify /\ [][NextNotify]_vars

\* create and delete requests in any order
NextStore ==
  \/ RawPost
  \/ DeleteBooking
  \/ \E c \in Clients : PostReceived(c)
  \/ \E c \in Clients : PostWeatherDone(c)
  \/ \E c \in Clients : PostServerError(c)

SpecStore == InitStore /\ [][NextStore]_vars

\* create and delete requests handled one at a time
NextSerial ==
  \/ PostInTurn
  \/ DeleteInTurn
  \/ \E c \in Clients : PostReceived(c)
  \/ \E c \in Clients : PostWeatherDone(c)
  \/ \E c \in Clients : PostServerError(c)

SpecSerial == InitSerial /\ [][NextSerial]_vars

\* requests to the weather route
NextWeather ==
  \/ WeatherRequested
  \/ OneCallReturned
  \/ OneCallFailed
  \/ CurrentReturned
  \/ CurrentFailed

SpecWeather == InitWeather /\ [][NextWeather]_vars

\* slot queries while other clients book
NextSlots ==
  \/ GetSlots
  \/ OtherPost
  \/ \E c \in Clients : PostReceived(c)
  \/ \E c \in Clients : PostWeatherDone(c)

SpecSlots == InitSlots /\ [][NextSlots]_vars

\* one request to the slots route, its loop turn by turn; the handler runs
\* to its end without giving up the thread
NextLoop ==
  \/ SlotsRequested
  \/ LoopStep
  \/ LoopDone
  \/ LoopOverrun

SpecLoop == InitLoop /\ [][NextLoop]_vars /\ WF_vars(NextLoop)

\* speak() and listenOnce() from inside
NextSpeak ==
  \/ SpeakCalled
  \/ VoicesChanged
  \/ SpeakTimerFired
  \/ UtteranceEnded
  \/ ListenBegins
  \/ ListenEnds

SpecSpeak == InitSpeak /\ [][NextSpeak]_vars

(***************************************************************************)
(* Properties                                                              *)
(***************************************************************************)
\* C1: for every interleaving of concurrent POST /api/bookings requests, the
\* store holds at most one booking per (bookingDate, bookingTime): two
\* requests for the same slot never both succeed
C1_OneBookingPerSlot ==
  \A j, k \in 1..Len(store) :
    j # k => ~(/\ store[j].bookingDate = store[k].bookingDate
               /\ store[j].bookingTime = store[k].bookingTime)

\* C2: a session submits at most twice; the second submission is made only
\* after the first was answered 409 and the user chose one of the offered
\* alternatives; a retry that fails ends the session with a failure, after
\* one slot query and two submissions
C2_AtMostOneRetry ==
  /\ Len(posts) <= 2
  /\ slotQueries <= 1
  /\ Len(posts) = 2 =>
       /\ statuses # <<>> /\ statuses[1] = 409
       /\ slotQueries = 1
       /\ chosen \in Range(alternatives)
       /\ posts[2] = [posts[1] EXCEPT !.bookingTime = chosen]
  /\ (Len(statuses) = 2 /\ statuses[2] # 201) =>
       /\ pc \in {"speakFinal", "done"}
       /\ outcome = "retryFailed"
       /\ slotQueries = 1
       /\ Len(posts) = 2

\* the retry was refused too and the session is over
C2_RetryRefused ==
  /\ pc = "done"
  /\ Len(statuses) = 2
  /\ statuses[2] = 409
  /\ outcome = "retryFailed"

\* the confirmation reply has been received
ConfirmAnswered ==
  /\ "confirm" \in Range(steps)
  /\ pc \notin {"speakConfirm", "speakPlease", "delay", "listenConfirm"}

\* C3: a submission is made only if the reply to the final confirmation was
\* classified affirmative; any other reply, the empty one included, ends the
\* session as cancelled with no submission, no slot query and the store as
\* it was
C3_ConfirmBeforeSubmit ==
  /\ posts # <<>> => isAffirmative(confirmResp)
  /\ (ConfirmAnswered /\ ~isAffirmative(confirmResp)) =>
       /\ outcome = "cancelled"
       /\ pc \in {"speakFinal", "done"}
       /\ posts = <<>>
       /\ slotQueries = 0
       /\ store \in inputs.stores
       /\ \A c \in Clients : req[c] = NoRequest

\* an empty confirmation reply cancelled the session
C3_EmptyReplyCancels ==
  /\ pc = "done"
  /\ "confirm" \in Range(steps)
  /\ confirmResp = <<>>
  /\ outcome = "cancelled"

\* C4: once stopConversation has been called, the session makes no
\* submission, wherever the stop arrived
C4_NoSubmitAfterStop ==
  stopRequested => "post" \notin afterStop

\* C5: after a stop that arrives during a capture, the session starts no
\* further prompt or capture once that capture completes: no reprompt, no
\* main prompt after the seating reply, no NLP call, no next field
C5_NoProgressAfterStop ==
  stopAt = "capture" =>
    afterStop \cap {"seatPrompt", "mainPrompt", "reprompt", "capture", "nlp",
                    "confirmPrompt", "offerPrompt"} = {}

\* C6: a capture never begins while an utterance of the speak() before it
\* is playing, and the promise of a speak() call is resolved only when no
\* utterance it queued is still in the synthesis queue
C6_SpeakThenListen ==
  /\ callerPc = "listening" => call \notin Range(playingAtCapture)
  /\ \A c \in resolved : c \notin Range(playing)

\* C7: an empty first capture of a field is followed by exactly one reprompt
\* and one more capture, whose result is recorded whatever it is; a
\* non-empty first capture is not followed by a reprompt; no field is asked
\* in two iterations, so none is captured more than twice
C7_OneReprompt ==
  /\ ask.captures <= 2
  /\ ask.reprompts <= 1
  /\ \A j, k \in 1..Len(steps) : j # k => steps[j] # steps[k]
  /\ pc \in {"speakReprompt", "listenReprompt"} =>
       ask.first = <<>> /\ ask.reprompts = 1
  /\ ask.first = <<>> =>
       /\ ask.reprompts = 1
       /\ pc = "speakReprompt" => ask.captures = 1
       /\ pc # "speakReprompt" => ask.captures = 2
  /\ (ask.first # <<>> /\ ask.first # Null) =>
       ask.reprompts = 0 /\ ask.captures = 1
  /\ (ask.captures = 2 /\ pc # "listenReprompt") =>
       answers[ask.key] = transcript

\* bookingDate was captured empty twice, the empty value was recorded and
\* the flow went on to the seating sub-dialogue
C7_EmptyRecorded ==
  /\ ask.key = "bookingDate"
  /\ ask.first = <<>>
  /\ ask.captures = 2
  /\ answers["bookingDate"] = <<>>
  /\ pc = "fetchWeather"

\* C8: in a session that reaches the confirmation summary the seating
\* sub-dialogue ran exactly once, and after the bookingDate step wherever
\* that step ran; this is the part of the claimed step order that concerns
\* the seating sub-dialogue, also when bookingTime came from an NLP intent
C8_SeatingOnce ==
  "confirm" \in Range(steps) =>
    /\ Cardinality({k \in 1..Len(steps) : steps[k] = "seating"}) = 1
    /\ \A j, k \in 1..Len(steps) :
         (steps[j] = "bookingDate" /\ steps[k] = "seating") => j < k

\* the seating reply has been received
SeatAnswered == "seating" \in Range(steps) /\ "bookingTime" \in Range(steps)

\* C9: with the suggested side rec, a reply that is only affirmative sets the
\* seating preference to rec, one that is only negative sets it to the
\* other side, and a reply that is neither or both leaves it unset, so that
\* the payload carries no seatingPreference
C9_SeatingReply ==
  SeatAnswered =>
    LET affirmative == isAffirmative(prefResp)
        negative == isNegative(prefResp)
        opposite == IF rec = tIndoor THEN tOutdoor ELSE tIndoor
        expected == IF affirmative /\ ~negative THEN rec
                    ELSE IF negative /\ ~affirmative THEN opposite
                    ELSE <<>>
    IN /\ rec \in {tIndoor, tOutdoor}
       /\ answers["seatingPreference"] = expected
       /\ "confirm" \in Range(steps) =>
            payload.seatingPreference = IF expected = <<>> THEN Null ELSE expected

\* a reply that is affirmative and negative at once left the payload without
\* seatingPreference
C9_BothLeavesUnset ==
  /\ "confirm" \in Range(steps)
  /\ SeatAnswered
  /\ prefResp = tOkThen
  /\ payload.seatingPreference = Null

\* the weather lookup gave no usable recommendation
NoUsableRecommendation(w) ==
  \/ ~w.ok
  \/ ~Truthy(w.seatingRecommendation)
  \/ Lower(w.seatingRecommendation) \notin {tIndoor, tOutdoor}

\* C10: when the weather lookup fails or recommends neither indoor nor
\* outdoor, the seating question suggests indoor and an affirmative reply
\* yields indoor
C10_IndoorByDefault ==
  (SeatAnswered /\ NoUsableRecommendation(weatherResp)) =>
    /\ rec = tIndoor
    /\ (isAffirmative(prefResp) /\ ~isNegative(prefResp)) =>
         answers["seatingPreference"] = tIndoor

\* C11: when the first capture of a field returned a non-empty transcript,
\* the value recorded for that field is the transcript, not the value the
\* NLP intent extracted from the same utterance carries for the field
C11_SpokenAnswerKept ==
  (ask.first # Null /\ ask.first # <<>> /\ pc # "callNLP") =>
    answers[ask.key] = ask.first

\* C12: once a draft field holds a non-empty value, no step of the session
\* changes it: no later capture, no later NLP intent
C12_FilledFieldKept ==
  [][\A k \in 1..NFields :
       Truthy(answers[flow[k]]) => answers'[flow[k]] = answers[flow[k]]]_vars

\* the utterance at the cuisine step gave an intent with bookingTime 20:00
\* while the draft held the spoken "7 pm", which is still there when the
\* payload is built
C12_LaterIntentIgnored ==
  /\ "confirm" \in Range(steps)
  /\ answers["bookingTime"] = tSevenPm
  /\ \E n \in 1..Len(intents) :
       /\ intents[n].key = "cuisinePreference"
       /\ intents[n].intent.bookingTime = tTwenty

\* C13: when the seating sub-dialogue set a seating preference, the payload
\* and every submission carry it, whatever seating preference NLP intents
\* supplied before or after the sub-dialogue
C13_SeatingAnswerSubmitted ==
  answers["seatingPreference"] \in {tIndoor, tOutdoor} =>
    /\ "confirm" \in Range(steps) =>
         payload.seatingPreference = answers["seatingPreference"]
    /\ \A k \in 1..Len(posts) :
         posts[k].seatingPreference = answers["seatingPreference"]

\* the sub-dialogue gave indoor, intents before and after it said outdoor,
\* and indoor was submitted
C13_IndoorAgainstIntents ==
  /\ posts # <<>>
  /\ answers["seatingPreference"] = tIndoor
  /\ posts[1].seatingPreference = tIndoor
  /\ \E m, n \in 1..Len(intents) :
       /\ intents[m].key = "customerName"
       /\ intents[m].intent.seatingPreference = tOutdoor
       /\ intents[n].key \in {"bookingTime", "cuisinePreference"}
       /\ intents[n].intent.seatingPreference = tOutdoor

\* the rule as stated: indoor for a precipitation probability that is
\* present and at least 0.30, else indoor for a condition text that contains
\* rain, thunder, snow or drizzle in any case, else outdoor
SeatingByRule(pop, main) ==
  IF pop # NoPop /\ pop >= 30 THEN tIndoor
  ELSE IF main # Null /\ \E p \in 1..Len(main) :
            \/ MatchesAt(Lower(main), p, <<"r", "a", "i", "n">>)
            \/ MatchesAt(Lower(main), p, <<"t", "h", "u", "n", "d", "e", "r">>)
            \/ MatchesAt(Lower(main), p, <<"s", "n", "o", "w">>)
            \/ MatchesAt(Lower(main), p, <<"d", "r", "i", "z", "z", "l", "e">>)
    THEN tIndoor
  ELSE tOutdoor

\* the weather route answered from the daily forecast
AnsweredFromDaily ==
  wx.pc = "responded" /\ wx.status = 200 /\ wx.body.note = ""

\* C14: the recommendation computed from a forecast record follows the
\* rule; (pop 0.3, Clear) gives indoor, (pop 0.1, Thunderstorm) gives indoor
\* and (pop 0.1, Clear) gives outdoor
C14_SeatingRule ==
  /\ (AnsweredFromDaily /\ wx.body.forecast # NoEntry) =>
       wx.body.seatingRecommendation =
         SeatingByRule(wx.body.forecast.pop, wx.body.forecast.main)
  /\ decideSeatingFromWeatherObj(WeatherEntry(0, 30, tClear)) = tIndoor
  /\ decideSeatingFromWeatherObj(WeatherEntry(0, 10, tThunderstorm)) = tIndoor
  /\ decideSeatingFromWeatherObj(WeatherEntry(0, 10, tClear)) = tOutdoor

\* the route answered indoor from the entry (pop 0.3, Clear) of the day asked
C14_ThresholdIndoor ==
  /\ AnsweredFromDaily
  /\ wx.body.forecast.dt = wx.targetSeconds
  /\ wx.body.forecast.pop = 30
  /\ wx.body.forecast.main = tClear
  /\ wx.body.seatingRecommendation = tIndoor

\* the distance of an entry from the day asked, in seconds
DistanceFromTarget(e) ==
  IF e.dt >= wx.targetSeconds THEN e.dt - wx.targetSeconds
  ELSE wx.targetSeconds - e.dt

\* the forecast has entries, none of them for the day asked
NoExactEntry ==
  /\ AnsweredFromDaily
  /\ wx.daily # <<>>
  /\ \A k \in 1..Len(wx.daily) : wx.daily[k].dt # wx.targetSeconds

\* C15: without an entry for the exact date, a nearest entry within 3 days
\* gives the recommendation by the seating rule, indoor or outdoor, and the
\* answer is marked approximate; when the nearest entry is farther than 3
\* days away no entry is used
C15_NearestWithinThreeDays ==
  NoExactEntry =>
    IF \E k \in 1..Len(wx.daily) : DistanceFromTarget(wx.daily[k]) <= 259200
      THEN /\ \E k \in 1..Len(wx.daily) :
                /\ \A j \in 1..Len(wx.daily) :
                     DistanceFromTarget(wx.daily[k]) <= DistanceFromTarget(wx.daily[j])
                /\ wx.body.forecast = wx.daily[k]
                /\ wx.body.seatingRecommendation =
                     SeatingByRule(wx.daily[k].pop, wx.daily[k].main)
           /\ wx.body.seatingRecommendation \in {tIndoor, tOutdoor}
           /\ wx.body.weatherSummary = "Approximate forecast (closest available): "
      ELSE /\ wx.body.forecast = NoEntry
           /\ wx.body.seatingRecommendation = tIndoor
           /\ wx.body.weatherSummary # "Approximate forecast (closest available): "

\* the nearest entry is exactly 3 days from the day asked and was used, and
\* it gave outdoor
C15_ThreeDaysAwayUsed ==
  /\ NoExactEntry
  /\ DistanceFromTarget(wx.body.forecast) = 259200
  /\ wx.body.seatingRecommendation = tOutdoor
  /\ wx.body.weatherSummary = "Approximate forecast (closest available): "

\* C16: in every answer of the slot query, allSlots is strictly ascending,
\* available and taken are disjoint, and together they are exactly allSlots
C16_GridPartition ==
  slotsResp.status = 200 =>
    /\ \A j, k \in 1..Len(slotsResp.body.slots) :
         j < k => MinutesOf(slotsResp.body.slots[j])
                    < MinutesOf(slotsResp.body.slots[k])
    /\ Range(slotsResp.body.available) \cap Range(slotsResp.body.taken) = {}
    /\ Range(slotsResp.body.available) \cup Range(slotsResp.body.taken)
         = Range(slotsResp.body.slots)

\* the number of slots from open to close, both in minutes, at a step
SlotCount(open, close, step) == (close - open) \div step + 1

\* C17: allSlots is openTime + k * durationMinutes for k = 0, 1, ... as long
\* as the value is at most closeTime; the closing time is a slot when the
\* duration divides the window, and no slot lies after it
C17_GridEnumerates ==
  slotsResp.status = 200 =>
    LET open  == MinutesOf(slotsResp.open)
        close == MinutesOf(slotsResp.close)
        step  == slotsResp.duration
        slots == slotsResp.body.slots
    IN /\ Len(slots) = SlotCount(open, close, step)
       /\ \A k \in 1..Len(slots) :
            /\ slots[k] = TimeStr((open + (k - 1) * step) \div 60,
                                  (open + (k - 1) * step) % 60)
            /\ open + (k - 1) * step <= close
       /\ (close - open) % step = 0 => slots[Len(slots)] = slotsResp.close

\* a window of 90 minutes cut in slots of 45 minutes ends on the closing
\* time
C17_CloseIncluded ==
  /\ slotsResp.status = 200
  /\ slotsResp.duration = 45
  /\ slotsResp.body.slots = <<tEighteen, <<"1", "8", ":", "4", "5">>, tNineteenThirty>>

\* the position of a slot in the available list of the session's slot query
AvailablePosition(x) ==
  CHOOSE p \in 1..Len(slotsResp.body.available) : slotsResp.body.available[p] = x

\* C18: the alternatives offered after a conflict are at most 3, they are
\* slots of the available list of the booking date in the order of that
\* list, and the refused time is not among them; when the list leaves no
\* alternative the session ends with a failure after its single submission
C18_AlternativesFromAvailable ==
  /\ alternatives # <<>> =>
       /\ Len(alternatives) <= 3
       /\ slotsResp.status = 200
       /\ slotsResp.date = posts[1].bookingDate
       /\ posts[1].bookingTime \notin Range(alternatives)
       /\ Range(alternatives) \subseteq Range(slotsResp.body.available)
       /\ \A j, k \in 1..Len(alternatives) :
            j < k => AvailablePosition(alternatives[j])
                       < AvailablePosition(alternatives[k])
  /\ (/\ slotQueries = 1
      /\ pc # "fetchSlots"
      /\ Range(slotsResp.body.available) \ {posts[1].bookingTime} = {}) =>
       /\ outcome \in {"noSlots", "noAlternatives"}
       /\ pc \in {"speakFinal", "done"}
       /\ Len(posts) = 1
       /\ alternatives = <<>>

\* every slot of the day was taken: the session ended without a retry
C18_DayFullNoRetry ==
  /\ pc = "done"
  /\ statuses = <<409>>
  /\ slotsResp.status = 200
  /\ slotsResp.body.available = <<>>
  /\ outcome = "noSlots"
  /\ Len(posts) = 1

\* the ordinal words a reply can name an offered slot by
ordinalWords ==
  << <<"f", "i", "r", "s", "t">>,
     <<"s", "e", "c", "o", "n", "d">>,
     <<"t", "h", "i", "r", "d">> >>

\* the reply names the n-th offered slot and no other one
NamesOrdinal(reply, n) ==
  /\ Includes(Lower(reply), ordinalWords[n])
  /\ \A m \in 1..3 : m # n => ~Includes(Lower(reply), ordinalWords[m])

\* C19: a reply to the offer without a parseable time that names an ordinal
\* chooses the offered slot at that position, the retry carries it, and a
\* retry that succeeds ends the session as booked; with 18:00, 18:30, 19:30
\* offered, "the second one" chooses 18:30
C19_OrdinalPick ==
  (pickResp # <<>> /\ parseTimeText(pickResp) = Null) =>
    /\ \A n \in 1..Len(alternatives) :
         NamesOrdinal(pickResp, n) =>
           /\ chosen = alternatives[n]
           /\ Len(posts) = 2 => posts[2].bookingTime = alternatives[n]
           /\ (Len(statuses) = 2 /\ statuses[2] = 201) => outcome = "booked"
    /\ (/\ alternatives = <<tEighteen, tEighteenThirty, tNineteenThirty>>
        /\ pickResp = tSecondOne) => chosen = tEighteenThirty

\* C20: a submission, the first or the retry, that is answered with an error
\* other than 409 ends the session with the message built from the server's
\* answer (lines 1156-1158) and is the last submission; a submission that
\* fails on the network is the last one too
C20_FailureReported ==
  /\ \A k \in 1..Len(statuses) :
       statuses[k] \notin {201, 409} =>
         /\ outcome = "failed"
         /\ pc \in {"speakFinal", "done"}
         /\ Len(posts) = k
  /\ outcome = "networkError" => pc \in {"speakFinal", "done"}

\* the guest count is resolved from a text that names no number: it is empty
\* or absent, or it holds neither a digit nor a number word
NamesNoNumber(t) ==
  \/ t = <<>>
  \/ t = Null
  \/ /\ \A p \in 1..Len(t) : ~IsDigit(t[p])
     /\ \A k \in 1..Len(NumberParts(Trim(t))) :
          ~IsNumberWord(NumberParts(Trim(t))[k])

\* the text is the word zero or a number written with zeros only
NamesZero(t) ==
  \/ Lower(Trim(t)) = tZeroWord
  \/ /\ t # <<>>
     /\ \A p \in 1..Len(t) : t[p] = "0"

\* the text is a negative integer: a minus sign, then digits that are not
\* all zeros
NamesNegative(t) ==
  /\ Len(t) >= 2
  /\ t[1] = "-"
  /\ \A p \in 2..Len(t) : IsDigit(t[p])
  /\ \E p \in 2..Len(t) : t[p] # "0"

\* C21 as stated: every payload has numberOfGuests an integer >= 1; an empty,
\* unparseable, zero or negative guest count resolves to 1
C21_GuestsResolveToOne ==
  payload # NoPayload =>
    /\ payload.numberOfGuests \in Nat
    /\ payload.numberOfGuests >= 1
    /\ (\/ NamesNoNumber(answers["numberOfGuests"])
        \/ NamesZero(answers["numberOfGuests"])
        \/ NamesNegative(answers["numberOfGuests"])) =>
         payload.numberOfGuests = 1

\* C21 amended: every payload has numberOfGuests an integer >= 1; an empty,
\* unparseable or zero guest count resolves to 1, and a negative one to its
\* magnitude, the minus sign being skipped by the search for digits
C21_GuestsAtLeastOne ==
  payload # NoPayload =>
    /\ payload.numberOfGuests \in Nat
    /\ payload.numberOfGuests >= 1
    /\ (\/ NamesNoNumber(answers["numberOfGuests"])
        \/ NamesZero(answers["numberOfGuests"])) =>
         payload.numberOfGuests = 1
    /\ NamesNegative(answers["numberOfGuests"]) =>
         payload.numberOfGuests = DigitsValue(Tail(answers["numberOfGuests"]))

\* the interpreter supplied -3 guests and the payload asks for 3
C21_NegativeFromIntent ==
  /\ payload # NoPayload
  /\ answers["numberOfGuests"] = tMinusThree
  /\ \E k \in 1..Len(intents) :
       intents[k].intent.hasGuests /\ intents[k].intent.numberOfGuests = -3
  /\ payload.numberOfGuests = 3

\* a time of day HH:MM on the 24-hour clock
IsTimeOfDay(t) ==
  /\ Len(t) = 5
  /\ IsDigit(t[1]) /\ IsDigit(t[2]) /\ t[3] = ":" /\ IsDigit(t[4]) /\ IsDigit(t[5])
  /\ DigitsValue(SubSeq(t, 1, 2)) <= 23
  /\ DigitsValue(SubSeq(t, 4, 5)) <= 59

\* C22: every payload built by a session has bookingTime a valid time of day
\* HH:MM with the hour in 0..23 and the minute in 0..59, whatever the time
\* transcript and the time the interpreter supplied
C22_TimeOfDay ==
  payload # NoPayload => IsTimeOfDay(payload.bookingTime)

\* the booking of the request of client c is stored as confirmed
StoredConfirmed(c, bookings) ==
  \E k \in 1..Len(bookings) :
    /\ bookings[k].bookingId = req[c].body.bookingId
    /\ bookings[k].bookingDate = req[c].body.bookingDate
    /\ bookings[k].bookingTime = req[c].body.bookingTime
    /\ bookings[k].status = "confirmed"

\* C23: every call of sendSms or sendEmail is made when the booking is
\* stored as confirmed and the request is answered 201; a request answered
\* 400, 409 or 500 has no notification task and no attempt; a step of a
\* notification task, whatever its outcome, changes neither the bookings nor
\* the answer to the request
C23_NotifyAfterStored ==
  [][/\ \A k \in 1..Len(attempts') :
          attempts'[k].stored /\ attempts'[k].status = 201
     /\ \A c \in Clients :
          req'[c].status \in {400, 409, 500} =>
            /\ notif'[c].pc = "none"
            /\ \A k \in 1..Len(attempts') : attempts'[k].client # c
     /\ \A c \in Clients :
          (notif[c].pc \in {"sms", "email"} /\ notif'[c] # notif[c]) =>
            /\ store' = store
            /\ req'[c] = req[c]
            /\ req[c].status = 201
            /\ StoredConfirmed(c, store)]_vars

\* the SMS failed and the email call was rejected, the request stays answered
\* 201 and its booking stays stored; the same run rejected no request
C23_FailedNotificationKept ==
  \E c \in Clients :
    /\ notif[c].pc = "done"
    /\ notif[c].sms = "failed"
    /\ notif[c].mail = "exception"
    /\ req[c].status = 201
    /\ StoredConfirmed(c, store)
    /\ Cardinality({k \in 1..Len(attempts) : attempts[k].client = c}) = 2

\* C24: when the user gave an email address or a phone number before the
\* conversation and the booking is confirmed, the request the conversation
\* submitted carries that contact information
C24_ContactSubmitted ==
  \A k \in 1..Len(statuses) :
    statuses[k] = 201 =>
      /\ contactMode \in {"email", "both"} => Truthy(posts[k].email)
      /\ contactMode \in {"phone", "both"} => Truthy(posts[k].phone)

\* no two bookings share a bookingId
UniqueIds(bookings) ==
  \A j, k \in 1..Len(bookings) :
    bookings[j].bookingId = bookings[k].bookingId => j = k

\* C25: whatever the order of create and delete requests, no two stored
\* bookings share a bookingId; a create request that comes to the bookingId
\* check while its bookingId is stored is answered 400 and the store stays
\* as it was
C25_UniqueBookingIds ==
  /\ UniqueIds(store)
  /\ [][/\ UniqueIds(store')
        /\ \A c \in Clients :
             (/\ req[c].pc = "weather"
              /\ req'[c].pc = "responded"
              /\ req'[c].status # 500
              /\ \E k \in 1..Len(store) :
                   store[k].bookingId = req[c].body.bookingId) =>
               /\ req'[c].status = 400
               /\ store' = store]_vars

\* a create request was rejected for its stored bookingId after a booking
\* with that bookingId was deleted and created again
C25_RejectedAfterRecreate ==
  \E c \in Clients :
    /\ req[c].pc = "responded"
    /\ req[c].status = 400
    /\ ~MissingRequired(req[c].body)
    /\ \E k \in 1..Len(store) : store[k].bookingId = req[c].body.bookingId
    /\ \E d \in 1..Len(deletes) :
         deletes[d].status = 200 /\ deletes[d].id = req[c].body.bookingId
    /\ \E d \in 1..Len(deletes) : deletes[d].status = 404

\* C26: in a runtime without speech recognition startConversation speaks the
\* notice and returns: it never enters the dialogue (no greeting, prompt,
\* capture, weather or NLP call, submission) and none of its steps changes
\* running or stopRequested
C26_UnsupportedTerminal ==
  [][~speechSupported =>
       /\ pc' \in {"idle", "speakUnsupported", "done"}
       /\ steps' = <<>>
       /\ ask' = NoAsk
       /\ rec' = <<>>
       /\ intents' = <<>>
       /\ posts' = <<>>
       /\ slotQueries' = 0
       /\ \A c \in Clients : req'[c] = NoRequest
       /\ running' = running
       /\ stopRequested' = stopRequested
       /\ pc' = "done" => outcome' = "unsupported"]_vars

\* the notice was spoken and startConversation returned
C26_UnsupportedReported ==
  /\ ~speechSupported
  /\ pc = "done"
  /\ outcome = "unsupported"
  /\ ~running
  /\ ~listening

\* the fetch of callNLP failed: it rejected, the status was not ok, or the
\* body held no intent
NlpFailed(resp) == resp.rejected \/ ~resp.ok \/ ~resp.intent.present

\* C27: when the extractor fails (network error, status that is not ok, body
\* without intent) callNLP returns null, and the step records the transcript
\* or asks again exactly as the step after a capture that calls no extractor:
\* the seating preference and every other field of the draft stay as they
\* were
C27_ExtractorFailureIgnored ==
  [][(pc = "callNLP" /\ Len(intents') = Len(intents) + 1
        /\ NlpFailed(intents'[Len(intents')].response)) =>
       LET key == flow[i]
           heard == [answers EXCEPT ![key] = transcript]
       IN /\ intents'[Len(intents')].intent = NullIntent
          /\ seatingPreferenceFromUser' = seatingPreferenceFromUser
          /\ transcript' = transcript
          /\ IF transcript = <<>>
               THEN answers' = answers /\ pc' = "speakReprompt"
               ELSE /\ answers' = heard
                    /\ pc' = Continue(i + 1, heard,
                                      seatingPreferenceFromUser).pc
                    /\ i' = Continue(i + 1, heard,
                                     seatingPreferenceFromUser).i]_vars

\* the extractor failed in the three ways in one conversation that went on
\* to present its draft
C27_ThreeFailuresSurvived ==
  /\ pc = "listenConfirm"
  /\ \E k \in 1..Len(intents) : intents[k].response.rejected
  /\ \E k \in 1..Len(intents) :
       ~intents[k].response.rejected /\ ~intents[k].response.ok
  /\ \E k \in 1..Len(intents) :
       intents[k].response.ok /\ ~intents[k].response.intent.present

\* the captures of scenario A took place: the name and the guests were said
\* in a word (no extractor call for them), the time, the cuisine and the
\* special requests were asked for, and the seating suggestion was answered
ScenarioACaptured ==
  /\ \A k \in 1..Len(intents) : intents[k].key = "bookingDate"
  /\ {"customerName", "numberOfGuests", "bookingDate", "seating",
      "bookingTime", "cuisinePreference", "specialRequests"}
       \subseteq Range(steps)

C29_StopScoped ==
  (stopAt # "none" /\ pc # "done") => stopRequested

\* C30: listenOnce resolves exactly once in every order of result, error,
\* end, timeout and start failure: with the trimmed transcript when the
\* result comes first, with the empty string otherwise; it has resolved as
\* soon as any of them happened, and once called it resolves, at the latest
\* when the timer fires
C30_ListenResolvesOnce ==
  /\ [](/\ Len(lo.resolvedWith) <= 1
        /\ lo.pc \in {"unsupported", "startFailed"} => lo.resolvedWith = <<<<>>>>
        /\ lo.events # <<>> =>
             lo.resolvedWith =
               <<IF lo.events[1].kind = "result"
                   THEN HeardText(lo.events[1].text) ELSE <<>>>>
        /\ lo.timer = "fired" => Len(lo.resolvedWith) = 1
        /\ lo.finished <=> (lo.resolvedWith # <<>> /\ lo.pc # "unsupported"))
  /\ (lo.pc # "idle") ~> (Len(lo.resolvedWith) = 1)

\* a transcript with spaces around it came first and was followed by the
\* error, the end and the timeout
C30_ResultThenAll ==
  /\ Len(lo.events) = 4
  /\ lo.events[1] = Event("result", tTwoSpaced)
  /\ lo.timer = "fired"
  /\ lo.resolvedWith = <<tTwo>>

\* C31: parseNumberText returns n for the English phrase of every n in
\* 0..100, with or without a trailing word, and null for the empty string
C31_NumberPhrases ==
  parsed.fn = "number" =>
    /\ \A n \in 0..100 :
         parsed.text \in {EnglishPhrase(n), EnglishPhrase(n) \o tGuestsWord}
           => parsed.result = n
    /\ parsed.text = <<>> => parsed.result = NoNumber

\* the hour the claim names for hour h with the suffix sfx
ClaimedHour(h, sfx) ==
  IF Includes(Lower(sfx), <<"p", "m">>) /\ h < 12 THEN h + 12
  ELSE IF Includes(Lower(sfx), <<"a", "m">>) /\ h = 12 THEN 0
  ELSE h

\* C32: for hour h, optional minutes m and optional am/pm, parseTimeText
\* returns hour h + 12 when pm and h < 12, hour 0 when am and h = 12,
\* otherwise h, with minutes m, or 00 when none are given; the booking time
\* is 19:00 when the text holds no time
C32_TimeParsed ==
  parsed.fn = "time" =>
    /\ \A h \in 0..23, sfx \in timeSuffixes :
         /\ parsed.text = HourText(h, sfx) =>
              parsed.result = TimeStr(ClaimedHour(h, sfx), 0)
         /\ \A sep \in {":", "."}, m \in saidMinutes :
              parsed.text = TimeText(h, sep, m, sfx) =>
                parsed.result = TimeStr(ClaimedHour(h, sfx), m)
    /\ parsed.result # Null => parsed.value = parsed.result
    /\ (\A k \in 1..Len(parsed.text) : ~IsDigit(parsed.text[k])) =>
         parsed.result = Null /\ parsed.value = tNineteen

\* half past twelve at night was parsed
C32_HalfPastMidnight ==
  /\ parsed.fn = "time"
  /\ parsed.text = TimeText(12, ":", 30, <<" ", "a", "m">>)
  /\ parsed.result = TimeStr(0, 30)


\* C33: a bare day of the month d that exists in the month it is meant for
\* resolves to day d of the current month when d is today's day or later, and
\* to day d of the next month when d is before today's day; a text that is no
\* date resolves to the current date
SaidDay(d) ==
  parsed.text \in {DayText(d), DayText(d) \o tTh, tOnThe \o DayText(d) \o tTh}
C33_BareDayResolved ==
  parsed.fn = "date" =>
    LET now == parsed.today
    IN /\ \A d \in 1..31 :
            SaidDay(d) =>
              /\ (d >= now[3] /\ d <= DaysInMonth(now[1], now[2])) =>
                    parsed.value = formatDateYMD(<<now[1], now[2], d>>)
              /\ (d < now[3]) =>
                    LET next == MakeDate(now[1], now[2] + 1, 1)
                    IN d <= DaysInMonth(next[1], next[2]) =>
                         parsed.value = formatDateYMD(<<next[1], next[2], d>>)
       /\ parsed.text \in {<<>>, tLots} => parsed.value = formatDateYMD(now)
\* the part of C33 without the day that is today's: later days, earlier days
\* and texts that are no date
C33_OtherDaysResolved ==
  parsed.fn = "date" =>
    LET now == parsed.today
    IN /\ \A d \in 1..31 :
            SaidDay(d) =>
              /\ (d > now[3] /\ d <= DaysInMonth(now[1], now[2])) =>
                    parsed.value = formatDateYMD(<<now[1], now[2], d>>)
              /\ (d < now[3]) =>
                    LET next == MakeDate(now[1], now[2] + 1, 1)
                    IN d <= DaysInMonth(next[1], next[2]) =>
                         parsed.value = formatDateYMD(<<next[1], next[2], d>>)
       /\ parsed.text \in {<<>>, tLots} => parsed.value = formatDateYMD(now)
\* today's day number said at noon
C33_TodaySaidAtNoon ==
  /\ parsed.fn = "date"
  /\ parsed.today[4] = Noon
  /\ SaidDay(parsed.today[3])
\* today's day number said at noon comes out as a day of the next month
C33_TodayBecomesNextMonth ==
  C33_TodaySaidAtNoon =>
    parsed.value =
      formatDateYMD(MakeDate(parsed.today[1], parsed.today[2] + 1,
                             parsed.today[3]))


\* C34: with requests handled one at a time, a create request that carries
\* every required field for a (date, time) a stored booking holds is answered
\* 409 (500 when the handler throws), and a create request that is answered
\* anything but 201 leaves the store as it was
Answered(c) == req[c].pc # "responded" /\ req'[c].pc = "responded"
SlotHeld(b) ==
  \E k \in 1..Len(store) :
    /\ store[k].bookingDate = b.bookingDate
    /\ store[k].bookingTime = b.bookingTime
Complete(b) ==
  /\ Truthy(b.bookingId) /\ Truthy(b.customerName) /\ b.numberOfGuests # 0
  /\ Truthy(b.bookingDate) /\ Truthy(b.bookingTime)
C35_RetryTimeWasOffered ==
  /\ chosen \in Range(alternatives) \cup {Null}
  /\ Len(posts) <= 2
  /\ Len(posts) = 2 =>
       /\ posts[2].bookingTime = chosen
       /\ posts[2].bookingTime \in Range(alternatives)
  /\ pc \in {"speakTrying", "post2"} => chosen \in Range(alternatives)
  /\ outcome = "noChoice" =>
       /\ chosen = Null
       /\ Len(posts) = 1
       /\ pc \in {"speakFinal", "done"}
\* a retry was submitted for a slot other than the one asked for first
C35_RetrySubmitted ==
  /\ Len(posts) = 2
  /\ pc = "post2"
  /\ posts[2].bookingTime # posts[1].bookingTime
  /\ Len(alternatives) >= 2


\* the delete request answered in this step, and what it did to the store
DeleteAnswered == Len(deletes') = Len(deletes) + 1
LastDelete == deletes'[Len(deletes')]
HeldIn(bookings, r) ==
  \E j \in 1..Len(bookings) :
    /\ bookings[j].bookingDate = r.bookingDate
    /\ bookings[j].bookingTime = r.bookingTime
\* the store loses the record at position k and nothing else
RemovedAt(k) ==
  /\ Len(store') = Len(store) - 1
  /\ \A j \in 1..Len(store') :
       store'[j] = IF j < k THEN store[j] ELSE store[j + 1]
  /\ \A j \in 1..Len(store') : store'[j].bookingId # store[k].bookingId
\* the slot of record r is free in the store after the step: not in taken,
\* in available when it is on the grid, and no conflict for a new request
SlotFreed(r) ==
  /\ r.bookingTime \notin Range(TakenOn(store', r.bookingDate))
  /\ r.bookingTime \in Range(Grid) =>
       r.bookingTime \in
         Range(SlotsBody(Grid, TakenOn(store', r.bookingDate)).available)
  /\ ~HeldIn(store', r)
DeleteOutcome(freed(_)) ==
  DeleteAnswered =>
    LET found == {k \in 1..Len(store) : store[k].bookingId = LastDelete.id}
    IN IF found = {}
         THEN LastDelete.status = 404 /\ store' = store
         ELSE /\ LastDelete.status = 200
              /\ \E k \in found : RemovedAt(k) /\ freed(store[k])

SlotFreedUnlessShared(r) == HeldIn(store', r) \/ SlotFreed(r)
C37_SeatingIndoorOrOutdoor ==
  \A k \in 1..Len(store) : store[k].seatingPreference \in {tIndoor, tOutdoor}
\* what holds instead: the stored value is the lower-cased, trimmed value of
\* the request when it carries one, and indoor or outdoor otherwise
C37_SeatingOfClientOrWeather ==
  \A k \in 1..Len(store) :
    \/ store[k].seatingPreference \in {tIndoor, tOutdoor}
    \/ \E b \in inputs.otherBodies :
         /\ Truthy(b.seatingPreference)
         /\ store[k].seatingPreference = Lower(Trim(b.seatingPreference))


\* C39: a reply to the final confirmation that holds a negative keyword does
\* not lead to a submission
C39_NegativeReplyNeverSubmits ==
  (pc = "speakSaving" \/ Len(posts) >= 1) => ~isNegative(confirmResp)
\* what holds instead: a submission follows an affirmative reply, whatever
\* else the reply holds
C39_AffirmativeReplySubmits ==
  (pc = "speakSaving" \/ Len(posts) >= 1) => isAffirmative(confirmResp)


\* C40: every request to the slots route is answered
C40_SlotsAlwaysAnswered ==
  [](InLoop => <>(slotsResp.status # 0))
\* what holds instead: a request with a positive duration is answered with
\* the grid, no request changes the store, and a loop that does not end
\* belongs to a duration of zero or less
C40_PositiveDurationAnswered ==
  /\ [](InLoop /\ slotsResp.duration > 0 =>
         <>(slotsResp.status = 200 /\ slotsResp =
              SlotsAnswer(store, slotsResp.date, slotsResp.open,
                          slotsResp.close, slotsResp.duration)))
  /\ [][store' = store]_vars
  /\ []((InLoop /\ slotsResp.exit = "aborted") => slotsResp.duration <= 0)


\* C38: a started conversation reaches a terminal outcome with running =
\* false: booked (confirmed), cancelled, stopped, or one of the failures; on
\* the way it makes at most two captures for a field, asks every field, the
\* seating and the confirmation once at most, picks a slot once at most and
\* submits twice at most
TerminalOutcomes ==
  {"booked", "cancelled", "stopped", "failed", "retryFailed", "networkError",
   "noSlots", "noAlternatives", "noChoice", "unsupported"}
Terminated == pc = "done" /\ ~running /\ outcome \in TerminalOutcomes
TimesIn(s, x) == Cardinality({k \in 1..Len(s) : s[k] = x})
CapturesBounded ==
  /\ ask.captures <= 2
  /\ \A k \in 1..Len(steps) : TimesIn(steps, steps[k]) = 1
  /\ slotQueries <= 1
  /\ Len(posts) <= 2
C38_SessionTerminates ==
  /\ []CapturesBounded
  /\ (pc # "idle") ~> Terminated
\* a conversation has ended after a reprompt, a slot pick and two submissions
C38_EndedAfterRetry ==
  /\ Terminated
  /\ Len(posts) = 2
  /\ ask.captures = 2
  /\ pickResp # <<>>

====
